---- MODULE Spec2Model ----
(***************************************************************************)
(* Model of the character generation engine: the Content resolver          *)
(* (content.js), the book filter, the Randomness provider (random.js) and  *)
(* the character assembler (character.js) with the page handlers that      *)
(* drive it.                                                               *)
(*                                                                         *)
(* JavaScript strings are tuples of one-character strings, so that split,  *)
(* slice and includes are computed and not assumed.  A JavaScript value is *)
(* a record [k, s, e]: k is the kind ("null", "undef", "str", "arr",       *)
(* "obj", and "throw" / "hang" for a call that raises or never returns),   *)
(* s the characters of a string, e the own properties in iteration order   *)
(* as pairs <<key, value>> (an array's keys are its indices).              *)
(***************************************************************************)
EXTENDS Integers, Sequences, FiniteSets, TLC

\* ------------------------------------------------------------------------
\* Bounds of the model
\* ------------------------------------------------------------------------
\* number of entries of a collection handed to GetRandom
MaxEntries == 2
\* number of optional books that can be switched on besides Real and PHB
MaxBooks == 1

\* ------------------------------------------------------------------------
\* String literals of the source
\* ------------------------------------------------------------------------
s_special == <<"_", "s", "p", "e", "c", "i", "a", "l">>
s_array == <<"_", "a", "r", "r", "a", "y">>
s_Male == <<"M", "a", "l", "e">>
s_Female == <<"F", "e", "m", "a", "l", "e">>
s_name == <<"n", "a", "m", "e">>
s_content == <<"c", "o", "n", "t", "e", "n", "t">>
s_undefined == <<"u", "n", "d", "e", "f", "i", "n", "e", "d">>
s_Random == <<"R", "a", "n", "d", "o", "m">>
s_Unknown == <<"U", "n", "k", "n", "o", "w", "n">>
s_standard == <<"s", "t", "a", "n", "d", "a", "r", "d">>
s_book == <<"b", "o", "o", "k">>
s_bookDash == <<"b", "o", "o", "k", "-">>
s_booksort == <<"b", "o", "o", "k", "s", "o", "r", "t">>
s_gendersort == <<"g", "e", "n", "d", "e", "r", "s", "o", "r", "t">>
s_halfethnicity == <<"h", "a", "l", "f", "e", "t", "h", "n", "i", "c", "i", "t", "y">>
s_humanethnicity == <<"h", "u", "m", "a", "n", "e", "t", "h", "n", "i", "c", "i", "t", "y">>
s_dragonbornvarianttype == <<"d", "r", "a", "g", "o", "n", "b", "o", "r", "n", "v", "a", "r", "i", "a", "n", "t", "t", "y", "p", "e">>
s_dragonmarkvariant == <<"d", "r", "a", "g", "o", "n", "m", "a", "r", "k", "v", "a", "r", "i", "a", "n", "t">>
s_tieflingappearance == <<"t", "i", "e", "f", "l", "i", "n", "g", "a", "p", "p", "e", "a", "r", "a", "n", "c", "e">>
s_tieflingvarianttype == <<"t", "i", "e", "f", "l", "i", "n", "g", "v", "a", "r", "i", "a", "n", "t", "t", "y", "p", "e">>
s_monstrousorigin == <<"m", "o", "n", "s", "t", "r", "o", "u", "s", "o", "r", "i", "g", "i", "n">>
s_Real == <<"R", "e", "a", "l">>
s_PHB == <<"P", "H", "B">>
s_EBR == <<"E", "B", "R">>
s_SCAG == <<"S", "C", "A", "G">>
s_EGtW == <<"E", "G", "t", "W">>
s_commaSpace == <<",", " ">>
s_subracesort == <<"s", "u", "b", "r", "a", "c", "e", "s", "o", "r", "t">>
s_Subrace == <<"S", "u", "b", "r", "a", "c", "e">>
s_SubracesAndVariants ==
    <<"S", "u", "b", "r", "a", "c", "e", "s", " ", "a", "n", "d">>
    \o <<" ", "V", "a", "r", "i", "a", "n", "t", "s">>
s_PhysicalCharacteristics ==
    <<"P", "h", "y", "s", "i", "c", "a", "l", " ">>
    \o <<"C", "h", "a", "r", "a", "c", "t", "e", "r", "i", "s", "t", "i", "c", "s">>

\* ------------------------------------------------------------------------
\* JavaScript string primitives
\* ------------------------------------------------------------------------
RECURSIVE SplitFrom(_, _, _, _)
SplitFrom(s, sep, i, cur) ==
    IF i > Len(s) THEN <<cur>>
    ELSE IF s[i] = sep THEN <<cur>> \o SplitFrom(s, sep, i + 1, <<>>)
    ELSE SplitFrom(s, sep, i + 1, Append(cur, s[i]))

\* String.prototype.split with a one-character separator
Split(s, sep) == SplitFrom(s, sep, 1, <<>>)

\* String.prototype.includes
Includes(hay, needle) ==
    \E i \in 1..(Len(hay) - Len(needle) + 1) :
        SubSeq(hay, i, i + Len(needle) - 1) = needle

\* String.prototype.slice(from, to) with 0 <= from <= to (to is exclusive)
Slice(s, from, to) ==
    SubSeq(s, from + 1, IF to < Len(s) THEN to ELSE Len(s))

\* String.prototype.slice(from)
SliceFrom(s, from) == SubSeq(s, from + 1, Len(s))

\* ------------------------------------------------------------------------
\* JavaScript values
\* ------------------------------------------------------------------------
Null == [k |-> "null", s |-> <<>>, e |-> <<>>]
Undef == [k |-> "undef", s |-> <<>>, e |-> <<>>]
Throw == [k |-> "throw", s |-> <<>>, e |-> <<>>]
Hang == [k |-> "hang", s |-> <<>>, e |-> <<>>]
Str(s) == [k |-> "str", s |-> s, e |-> <<>>]
Obj(entries) == [k |-> "obj", s |-> <<>>, e |-> entries]
Arr(items) ==
    [k |-> "arr", s |-> <<>>,
     e |-> [i \in 1..Len(items) |-> << <<ToString(i - 1)>>, items[i] >>]]

\* the call did not return a value
Abrupt(x) == x.k \in {"throw", "hang"}
\* x == null
IsNullish(x) == x.k \in {"null", "undef"}
\* typeof x == 'object' && x != null
IsObject(x) == x.k \in {"obj", "arr"}

HasOwnProperty(x, key) ==
    IsObject(x) /\ \E i \in 1..Len(x.e) : x.e[i][1] = key

\* x[key] for a value x that is not null or undefined
GetProp(x, key) ==
    IF HasOwnProperty(x, key)
    THEN x.e[CHOOSE i \in 1..Len(x.e) : x.e[i][1] = key][2]
    ELSE Undef

\* the own properties of x without the property key
DeleteProp(x, key) ==
    [x EXCEPT !.e = SelectSeq(x.e, LAMBDA p : p[1] # key)]

\* the elements of an array value
Elements(x) == [i \in 1..Len(x.e) |-> x.e[i][2]]

\* the property key a value is converted to by item[value]
ToPropertyKey(x) == IF x.k = "undef" THEN s_undefined ELSE x.s

isEmptyObject(obj) ==
    IF ~IsObject(obj) THEN TRUE ELSE Len(obj.e) = 0

\* ------------------------------------------------------------------------
\* Randomness provider: every operator gives the set of possible results
\* ------------------------------------------------------------------------
RandomNum(max) == IF max > 0 THEN 0..(max - 1) ELSE {0}

RandomArray(arr) ==
    CASE arr.k = "arr" ->
           IF Len(arr.e) = 0 THEN {Undef}
           ELSE {arr.e[n + 1][2] : n \in RandomNum(Len(arr.e))}
      [] arr.k = "str" ->
           IF Len(arr.s) = 0 THEN {Undef}
           ELSE {Str(<<arr.s[n + 1]>>) : n \in RandomNum(Len(arr.s))}
      [] arr.k = "obj" -> {Undef}
      [] OTHER -> {Throw}

\* Random.DiceRoll('1dM')
DiceRoll1d(m) == {n + 1 : n \in RandomNum(m)}

RECURSIVE Join(_, _)
Join(items, sep) ==
    IF Len(items) = 0 THEN <<>>
    ELSE IF Len(items) = 1 THEN items[1].s
    ELSE items[1].s \o sep \o Join(Tail(items), sep)

\* the sequences of num pairwise distinct values drawn from the set vals
RECURSIVE DistinctDraws(_, _)
DistinctDraws(vals, num) ==
    IF num = 0 THEN {<<>>}
    ELSE UNION {{Append(d, x) : x \in vals \ {d[i] : i \in 1..Len(d)}} :
                d \in DistinctDraws(vals, num - 1)}

RandomArrayMultiple(arr, num) ==
    LET vals == RandomArray(arr) IN
    IF Throw \in vals THEN {Throw}
    ELSE IF Cardinality(vals) < num THEN {Hang}
    ELSE {Str(Join(d, s_commaSpace)) : d \in DistinctDraws(vals, num)}

\* ------------------------------------------------------------------------
\* Book filter
\* ------------------------------------------------------------------------
CheckBookString(bookString, usedBooks) ==
    \E index \in 1..Len(usedBooks) : Includes(bookString, usedBooks[index])

CheckBookSpecial(specialString, usedBooks) ==
    LET splitSpecial == Split(specialString, " ")
        books == {i \in 1..Len(splitSpecial) :
                     Slice(splitSpecial[i], 0, 5) = s_bookDash}
    IN  IF books = {} THEN FALSE
        ELSE LET first == CHOOSE i \in books : \A j \in books : i <= j
             IN  CheckBookString(SliceFrom(splitSpecial[first], 5), usedBooks)

\* Array.prototype.includes on the list of used books
UsedBooksInclude(usedBooks, code) ==
    \E i \in 1..Len(usedBooks) : usedBooks[i] = code

\* ------------------------------------------------------------------------
\* Content resolver.  A context ctx is [usedBooks, Gender, ethnicityOption,
\* data]; context.mcEthnicity is threaded as mc because the opcodes write
\* it.  Every operator gives the set of possible outcomes [v, mc]: the
\* value returned (or Throw / Hang) and context.mcEthnicity afterwards.
\* ------------------------------------------------------------------------
Outcome(v, mc) == [v |-> v, mc |-> mc]

\* the {name, content} object of a resolved trait
Trait(name, content) ==
    Obj(<< <<s_name, name>>, <<s_content, content>> >>)

GetRandomEthnicity(ctx) ==
    LET eth == ctx.data.ethnicity IN
    IF ctx.ethnicityOption = s_standard
    THEN IF UsedBooksInclude(ctx.usedBooks, s_SCAG)
         THEN RandomArray(Arr(Elements(eth.PHB) \o Elements(eth.SCAG)))
         ELSE RandomArray(eth.PHB)
    ELSE RandomArray(eth.Real)

\* Array.prototype.concat of the book-keyed properties that pass the filter
RECURSIVE BookSortConcat(_, _, _)
BookSortConcat(entries, i, usedBooks) ==
    IF i > Len(entries) THEN <<>>
    ELSE (IF CheckBookString(entries[i][1], usedBooks)
          THEN (IF entries[i][2].k = "arr" THEN Elements(entries[i][2])
                ELSE <<entries[i][2]>>)
          ELSE <<>>) \o BookSortConcat(entries, i + 1, usedBooks)

BookSort(specialItem, usedBooks) ==
    LET item == IF HasOwnProperty(specialItem, s_special)
                THEN DeleteProp(specialItem, s_special) ELSE specialItem
    IN  RandomArray(Arr(BookSortConcat(item.e, 1, usedBooks)))

\* str.split(sep).join(by) for one-character sep and by
SplitJoin(s, sep, by) == [i \in 1..Len(s) |-> IF s[i] = sep THEN by ELSE s[i]]

\* SubracePropName of the opcode subracesort
SubracePropName(splitSpecial) ==
    IF Len(splitSpecial) > 1 THEN SplitJoin(splitSpecial[2], "_", " ")
    ELSE s_Subrace

\* the entries of newSubVar for the drawn subraceString
NewSubVar(subracesAndVariants, propName, subraceString) ==
    IF subracesAndVariants.k \notin {"obj", "arr"} THEN << >>
    ELSE [i \in 1..Len(subracesAndVariants.e) |->
             IF subracesAndVariants.e[i][1] = propName
             THEN <<propName, subraceString>>
             ELSE subracesAndVariants.e[i]]

\* the case subracesort of ApplySpecial: the values it can return
SubraceSort(splitSpecial, specialItem, usedBooks) ==
    LET propName == SubracePropName(splitSpecial)
        subracesAndVariants == GetProp(specialItem, s_SubracesAndVariants)
        subrace == GetProp(subracesAndVariants, propName)
        physical == GetProp(specialItem, s_PhysicalCharacteristics)
        subraceStrings ==
            IF ~HasOwnProperty(subracesAndVariants, propName) THEN {Undef}
            ELSE IF subrace.k = "arr" THEN RandomArray(subrace)
            ELSE IF IsNullish(subrace) THEN {Throw}
            ELSE BookSort(subrace, usedBooks)
    IN  {IF Abrupt(subraceString) \/ IsNullish(physical) THEN Throw
         ELSE Obj(<< <<s_SubracesAndVariants,
                       Obj(NewSubVar(subracesAndVariants, propName, subraceString))>>,
                     <<s_PhysicalCharacteristics,
                       GetProp(physical, ToPropertyKey(subraceString))>> >>) :
         subraceString \in subraceStrings}

\* the switch of ApplySpecial over the opcode name
ApplySpecialSwitch(special, specialItem, ctx, mc) ==
    LET splitSpecial == Split(special, "-")
        op == splitSpecial[1]
        usedBooks == ctx.usedBooks
        inline == GetProp(specialItem, s_array)
    IN
    CASE op = s_book ->
           IF Len(splitSpecial) < 2 THEN {Outcome(Throw, mc)}
           ELSE {Outcome(IF CheckBookString(splitSpecial[2], usedBooks)
                         THEN specialItem ELSE Null, mc)}
      [] op = s_booksort ->
           {Outcome(v, mc) : v \in BookSort(specialItem, usedBooks)}
      [] op = s_gendersort ->
           IF ctx.Gender = Str(s_Male)
           THEN {Outcome(GetProp(specialItem, s_Male), mc)}
           ELSE IF ctx.Gender = Str(s_Female)
           THEN {Outcome(GetProp(specialItem, s_Female), mc)}
           ELSE {Outcome(GetProp(specialItem, s_Male), mc),
                 Outcome(GetProp(specialItem, s_Female), mc)}
      [] op = s_halfethnicity ->
           {Outcome(v, IF Abrupt(v) THEN mc ELSE v) :
               v \in UNION {IF n > 0 THEN GetRandomEthnicity(ctx)
                            ELSE {Str(s_Unknown)} : n \in RandomNum(5)}}
      [] op = s_humanethnicity ->
           {Outcome(v, IF Abrupt(v) THEN mc ELSE v) :
               v \in GetRandomEthnicity(ctx)}
      [] op = s_subracesort ->
           {Outcome(v, mc) : v \in SubraceSort(splitSpecial, specialItem, usedBooks)}
      [] op = s_dragonbornvarianttype ->
           IF ~UsedBooksInclude(usedBooks, s_EGtW) THEN {Outcome(Null, mc)}
           ELSE {Outcome(v, mc) : v \in RandomArray(inline)}
      [] op = s_dragonmarkvariant ->
           UNION {IF ~UsedBooksInclude(usedBooks, s_EBR) \/ n = 0
                  THEN {Outcome(Null, mc)}
                  ELSE {Outcome(v, mc) : v \in RandomArray(inline)} :
                  n \in RandomNum(2)}
      [] op = s_tieflingappearance ->
           UNION {IF n = 0 THEN {Outcome(Null, mc)}
                  ELSE UNION {{Outcome(v, mc) :
                                  v \in RandomArrayMultiple(inline, d + 1)} :
                              d \in DiceRoll1d(4)} :
                  n \in RandomNum(3)}
      [] op = s_tieflingvarianttype ->
           IF ~UsedBooksInclude(usedBooks, s_SCAG) THEN {Outcome(Null, mc)}
           ELSE {Outcome(v, mc) : v \in RandomArray(inline)}
      [] op = s_monstrousorigin ->
           {Outcome(v, mc) : v \in RandomArray(ctx.data.monstrousOrigins)}
      [] OTHER -> {Outcome(specialItem, mc)}

\* Content.ApplySpecial without its first line
ApplySpecialNoGuard(special, specialItem, ctx, mc) ==
    ApplySpecialSwitch(special, specialItem, ctx, mc)

\* Content.ApplySpecial
ApplySpecial(special, specialItem, ctx, mc) ==
    IF IsNullish(specialItem) \/ ~IsObject(specialItem)
    THEN {Outcome(specialItem, mc)}
    ELSE ApplySpecialSwitch(special, specialItem, ctx, mc)

RECURSIVE Get(_, _, _)
RECURSIVE Special(_, _, _)
RECURSIVE GetProperties(_, _, _, _, _)
RECURSIVE ApplyCases(_, _, _, _, _, _)

\* the loop over the opcodes of one tag, from opcode caseIndex on: the
\* possible runs, each the sequence of the outcomes of the calls of
\* ApplySpecial made so far (trace), a raising call being the last one
ApplyCases(cases, caseIndex, newItem, ctx, mc, trace) ==
    IF caseIndex > Len(cases) THEN {trace}
    ELSE UNION {IF Abrupt(o.v) THEN {Append(trace, o)}
                ELSE ApplyCases(cases, caseIndex + 1, o.v, ctx, o.mc,
                                Append(trace, o)) :
                o \in ApplySpecial(cases[caseIndex], newItem, ctx, mc)}

\* item._special.split(' ') can be evaluated
HasSpecialString(item) ==
    item.k = "obj" /\ GetProp(item, s_special).k = "str"

\* the first part of Special: the clone and the opcode loop
SpecialChain(item, ctx, mc) ==
    ApplyCases(Split(GetProp(item, s_special).s, " "), 1,
               DeleteProp(item, s_special), ctx, mc, <<>>)

\* the last part of Special, after the opcode loop ended with outcome o
SpecialReturn(o, ctx) ==
    IF Abrupt(o.v) THEN {o}
    ELSE IF IsNullish(o.v) \/ isEmptyObject(o.v) THEN {Outcome(Null, o.mc)}
    ELSE Get(o.v, ctx, o.mc)

Special(item, ctx, mc) ==
    IF ~HasSpecialString(item) THEN {Outcome(Throw, mc)}
    ELSE UNION {SpecialReturn(tr[Len(tr)], ctx) :
                tr \in SpecialChain(item, ctx, mc)}

\* the loop over the properties of an untagged mapping, from property i on
GetProperties(entries, i, properties, ctx, mc) ==
    IF i > Len(entries) THEN {Outcome(Arr(properties), mc)}
    ELSE UNION {IF Abrupt(o.v) THEN {o}
                ELSE GetProperties(entries, i + 1,
                        IF IsNullish(o.v) THEN properties
                        ELSE Append(properties, Trait(Str(entries[i][1]), o.v)),
                        ctx, o.mc) :
                o \in Get(entries[i][2], ctx, mc)}

Get(item, ctx, mc) ==
    IF IsNullish(item) THEN {Outcome(Null, mc)}
    ELSE IF item.k = "arr"
    THEN UNION {IF Abrupt(x) THEN {Outcome(x, mc)} ELSE Get(x, ctx, mc) :
                x \in RandomArray(item)}
    ELSE IF item.k = "obj"
    THEN IF HasOwnProperty(item, s_special)
         THEN {IF Abrupt(o.v) THEN o
               ELSE IF isEmptyObject(o.v) THEN Outcome(Null, o.mc) ELSE o :
               o \in Special(item, ctx, mc)}
         ELSE GetProperties(item.e, 1, <<>>, ctx, mc)
    ELSE {Outcome(item, mc)}

\* the keys that the 'Random' sentinel chooses among
RECURSIVE RandomCandidates(_, _, _)
RandomCandidates(entries, i, usedBooks) ==
    IF i > Len(entries) THEN <<>>
    ELSE (IF HasOwnProperty(entries[i][2], s_special)
             /\ CheckBookSpecial(GetProp(entries[i][2], s_special).s, usedBooks)
          THEN <<Str(entries[i][1])>> ELSE <<>>)
         \o RandomCandidates(entries, i + 1, usedBooks)

GetRandom(item, dropdownVal, ctx, mc) ==
    IF dropdownVal # s_Random
    THEN {IF Abrupt(o.v) THEN o
          ELSE Outcome(Trait(Str(dropdownVal), o.v), o.mc) :
          o \in Special(GetProp(item, dropdownVal), ctx, mc)}
    ELSE UNION {{IF Abrupt(o.v) THEN o
                 ELSE Outcome(Trait(randomProp, o.v), o.mc) :
                 o \in Special(GetProp(item, ToPropertyKey(randomProp)), ctx, mc)} :
                randomProp \in RandomArray(Arr(RandomCandidates(item.e, 1, ctx.usedBooks)))}

\* ------------------------------------------------------------------------
\* Corpus nodes the resolver is applied to
\* ------------------------------------------------------------------------
k_A == <<"A">>
k_B == <<"B">>
k_X == <<"X">>
k_Y == <<"Y">>
k_t == <<"t">>

\* the special tags: one opcode, and chains of a gate and an ethnicity opcode
TagStrings ==
    {s_bookDash \o s_PHB, s_bookDash \o s_EBR, s_booksort, s_gendersort,
     s_humanethnicity, s_halfethnicity, s_monstrousorigin,
     s_dragonbornvarianttype, s_tieflingvarianttype, s_dragonmarkvariant,
     s_tieflingappearance,
     s_bookDash \o s_EBR \o <<" ">> \o s_humanethnicity,
     s_bookDash \o s_PHB \o <<" ">> \o s_halfethnicity,
     s_dragonbornvarianttype \o <<" ">> \o s_humanethnicity,
     s_tieflingvarianttype \o <<" ">> \o s_halfethnicity,
     s_dragonmarkvariant \o <<" ">> \o s_halfethnicity,
     s_tieflingappearance \o <<" ">> \o s_humanethnicity,
     s_gendersort \o <<" ">> \o s_bookDash \o s_PHB}

GatedChild ==
    Obj(<< <<s_special, Str(s_bookDash \o s_EBR)>>, <<k_t, Str(<<"x">>)>> >>)

\* the properties of a mapping besides its tag
Bodies ==
    {<< >>,
     << <<k_t, Str(<<"x">>)>> >>,
     << <<k_X, Null>> >>,
     << <<k_X, GatedChild>> >>,
     << <<k_X, Obj(<< <<k_Y, Null>> >>)>>, <<k_t, Str(<<"x">>)>> >>,
     << <<s_array, Arr(<<Str(<<"a">>), Str(<<"b">>)>>)>> >>,
     << <<s_PHB, Arr(<<Str(<<"h">>)>>)>>, <<s_EBR, Arr(<<Str(<<"m">>)>>)>> >>,
     << <<s_Male, Str(<<"m">>)>>, <<s_Female, Obj(<< <<k_t, Str(<<"f">>)>> >>)>> >>}

Tagged(tag, body) == Obj(<< <<s_special, Str(tag)>> >> \o body)

MappingNodes ==
    {Tagged(tag, body) : tag \in TagStrings, body \in Bodies}
    \cup {Obj(body) : body \in Bodies \ {<< >>}}

Nodes ==
    MappingNodes
    \cup {Null, Str(<<"x">>), Arr(<< >>),
          Arr(<<Obj(<< <<k_X, Null>> >>), Str(<<"x">>)>>)}

\* the entries of the collections handed to GetRandom
CollectionEntries ==
    {Tagged(s_bookDash \o s_PHB, << <<k_t, Str(<<"x">>)>> >>),
     Tagged(s_bookDash \o s_EBR, << <<k_t, Str(<<"x">>)>> >>),
     Tagged(s_bookDash \o s_PHB, << <<k_X, Null>> >>),
     Tagged(s_booksort, << <<s_PHB, Arr(<<Str(<<"h">>)>>)>> >>),
     Obj(<< <<k_t, Str(<<"x">>)>> >>)}

CollectionKeys == {k_A, k_B, s_undefined}

\* the sequences of at most n pairwise distinct keys
RECURSIVE KeySeqs(_)
KeySeqs(n) ==
    IF n = 0 THEN {<< >>}
    ELSE KeySeqs(n - 1)
         \cup {Append(ks, key) : ks \in {q \in KeySeqs(n - 1) : Len(q) = n - 1},
                                 key \in CollectionKeys}

Collections ==
    UNION {{Obj([i \in 1..Len(ks) |-> <<ks[i], es[i]>>]) :
               es \in [1..Len(ks) -> CollectionEntries]} :
           ks \in {q \in KeySeqs(MaxEntries) :
                      \A i, j \in 1..Len(q) : q[i] = q[j] => i = j}}

\* the books switched on: Real and PHB always, then the optional ones
OptionalBooks == {s_EBR, s_SCAG, s_EGtW}

RECURSIVE SetToSeq(_)
SetToSeq(S) ==
    IF S = {} THEN << >>
    ELSE LET x == CHOOSE y \in S : TRUE IN <<x>> \o SetToSeq(S \ {x})

UsedBookLists ==
    {<<s_Real, s_PHB>> \o SetToSeq(bs) :
        bs \in {b \in SUBSET OptionalBooks : Cardinality(b) <= MaxBooks}}

\* the tables of the corpus that the opcodes read
EthnicityTables ==
    [PHB |-> Arr(<<Str(<<"C">>)>>), SCAG |-> Arr(<<Str(<<"S">>)>>),
     Real |-> Arr(<<Str(<<"R">>)>>)]

MonstrousOrigins == Arr(<<Str(<<"o">>)>>)

EthnicityOptions == {s_standard, <<"r", "e", "a", "l">>}

Genders == {Str(s_Male), Str(s_Female)}

\* ------------------------------------------------------------------------
\* The corpus of the assembler: data.races, data.classes, data.backgrounds,
\* data.other, data.npcs, data.names and data.life
\* ------------------------------------------------------------------------
PlainEntry(book) == Tagged(s_bookDash \o book, << <<k_t, Str(<<"x">>)>> >>)

Data ==
    [races |-> Obj(<< <<k_A, PlainEntry(s_PHB)>>, <<k_B, PlainEntry(s_EBR)>> >>),
     classes |-> Obj(<< <<<<"K">>, PlainEntry(s_PHB)>> >>),
     backgrounds |-> Obj(<< <<<<"G">>, PlainEntry(s_PHB)>> >>),
     genders |-> Arr(<<Str(s_Male)>>),
     raceWeights |-> << <<k_A, 4>> >>,
     monstrousOrigins |-> MonstrousOrigins,
     ethnicity |-> EthnicityTables,
     names |-> Arr(<<Str(<<"Ann">>)>>),
     birthplaces |-> Arr(<<Str(<<"Home">>)>>),
     npcs |-> [appearances |-> Arr(<<Str(<<"a">>)>>),
               highAbilities |-> Arr(<<Str(<<"Str">>)>>),
               lowAbilities |-> Arr(<<Str(<<"Str">>), Str(<<"Dex">>)>>),
               talents |-> Arr(<<Str(<<"t">>)>>),
               mannerisms |-> Arr(<<Str(<<"m">>)>>),
               interactionTraits |-> Arr(<<Str(<<"i">>)>>),
               ideals |-> Arr(<<Str(<<"I">>)>>),
               bonds |-> Arr([i \in 1..9 |-> Str(<<"b">>)]),
               flawsAndSecrets |-> Arr(<<Str(<<"f">>)>>)]]

\* ------------------------------------------------------------------------
\* NPC generator (npc.js)
\* ------------------------------------------------------------------------
\* arr[index] of an array value, index counted from 0
At(arr, index) ==
    IF index >= 0 /\ index < Len(arr.e) THEN arr.e[index + 1][2] ELSE Undef

OccupationOf(rand, adventurerClass) ==
    IF rand < 5 THEN <<"Academic">>
    ELSE IF rand < 10 THEN <<"Aristocrat">>
    ELSE IF rand < 25 THEN <<"Artisan or guild member">>
    ELSE IF rand < 30 THEN <<"Criminal">>
    ELSE IF rand < 35 THEN <<"Entertainer">>
    ELSE IF rand < 37 THEN <<"Exile, hermit, or refugee">>
    ELSE IF rand < 42 THEN <<"Explorer or wanderer">>
    ELSE IF rand < 54 THEN <<"Farmer or herder">>
    ELSE IF rand < 59 THEN <<"Hunter or trapper">>
    ELSE IF rand < 74 THEN <<"Laborer">>
    ELSE IF rand < 79 THEN <<"Merchant">>
    ELSE IF rand < 84 THEN <<"Politician or bureaucrat">>
    ELSE IF rand < 89 THEN <<"Priest">>
    ELSE IF rand < 94 THEN <<"Sailor">>
    ELSE IF rand < 99 THEN <<"Soldier">>
    ELSE <<"Adventurer (">> \o adventurerClass \o <<")">>

\* NPC.GetOccupation(allowAdventurer, classWeightedFn); classes is the set
\* of the strings classWeightedFn can return, {} when no callback is given
\* a roll that allows the adventurer whatever allowAdventurer is
OccupationRollOfHundred(allowAdventurer) == RandomNum(100)

\* rand of NPC.GetOccupation
OccupationRoll(allowAdventurer) ==
    RandomNum(IF allowAdventurer THEN 100 ELSE 99)

\* the possible <<rand, occupation>> of NPC.GetOccupation
GetOccupationRolls(allowAdventurer, classes) ==
    {<<rand, Str(OccupationOf(rand, cls))>> :
        rand \in OccupationRoll(allowAdventurer),
        cls \in IF classes = {} THEN {<<"Adventurer">>} ELSE classes}

GetOccupation(allowAdventurer, classes) ==
    {r[2] : r \in GetOccupationRolls(allowAdventurer, classes)}

\* the Bond part of Values
GetBond(npcs) ==
    UNION {IF bond1 < 9 THEN {At(npcs.bonds, bond1).s}
           ELSE {At(npcs.bonds, pair[1]).s \o s_commaSpace
                    \o At(npcs.bonds, pair[2]).s :
                 pair \in {q \in RandomNum(9) \X RandomNum(9) : q[1] # q[2]}} :
           bond1 \in RandomNum(10)}

\* the indices <<highTraitNum, lowTraitNum>> of the two abilities
\* the two indices without the adjustment of the low one
AbilityIndicesUnadjusted(npcs) ==
    {<<high, low>> :
        high \in RandomNum(Len(npcs.highAbilities.e)),
        low \in RandomNum(Len(npcs.lowAbilities.e) - 1)}

AbilityIndices(npcs) ==
    {<<high, IF low >= high THEN low + 1 ELSE low>> :
        high \in RandomNum(Len(npcs.highAbilities.e)),
        low \in RandomNum(Len(npcs.lowAbilities.e) - 1)}

GetTraits(npcs) ==
    {Obj(<< <<<<"Appearance">>, ap>>,
            <<<<"High Ability">>, At(npcs.highAbilities, hl[1])>>,
            <<<<"Low Ability">>, At(npcs.lowAbilities, hl[2])>>,
            <<<<"Talent">>, ta>>,
            <<<<"Mannerism">>, ma>>,
            <<<<"Interaction Trait">>, it>>,
            <<<<"Values">>, Str(ideal.s \o s_commaSpace \o bond)>>,
            <<<<"Flaw or Secret">>, fl>> >>) :
        ap \in RandomArray(npcs.appearances), hl \in AbilityIndices(npcs),
        ta \in RandomArray(npcs.talents), ma \in RandomArray(npcs.mannerisms),
        it \in RandomArray(npcs.interactionTraits),
        ideal \in RandomArray(npcs.ideals), bond \in GetBond(npcs),
        fl \in RandomArray(npcs.flawsAndSecrets)}

\* ------------------------------------------------------------------------
\* Character assembler (character.js).  cx is the context the page builds:
\* [locks, raceMode, raceMenuValue, genderMenuValue, classMenuValue,
\* backgroundMenuValue, nameInputValue, usedBooks, ethnicityOption].  A
\* stage gives the possible progress records [c, mc, ok]: the record in
\* context.character, context.mcEthnicity, and ok = FALSE once a stage raised.
\* ------------------------------------------------------------------------
LockKeys ==
    {"name", "traits", "occupation", "gender", "race", "class", "background",
     "life"}

EmptyCharacter ==
    [Race |-> Undef, Gender |-> Undef, Name |-> Undef, ShortName |-> Undef,
     Class |-> Undef, Background |-> Undef, Occupation |-> Undef,
     NPCTraits |-> Undef, Life |-> Undef]

Progress(c, mc, ok) == [c |-> c, mc |-> mc, ok |-> ok]

Failed == Progress(EmptyCharacter, Undef, FALSE)

\* the context of the resolver while context.character.Gender is g
ResolverContext(cx, g) ==
    [usedBooks |-> cx.usedBooks, Gender |-> g,
     ethnicityOption |-> cx.ethnicityOption, data |-> Data]

checkBookString(bookString, books) ==
    \E index \in 1..Len(books) : Includes(bookString, books[index])

\* a Book Filter that is satisfied by any of the book clauses
checkBookSpecialAnyClause(specialString, books) ==
    LET splitSpecial == Split(specialString, " ") IN
    \E i \in 1..Len(splitSpecial) :
        /\ Slice(splitSpecial[i], 0, 5) = s_bookDash
        /\ checkBookString(SliceFrom(splitSpecial[i], 5), books)

checkBookSpecial(specialString, books) ==
    LET splitSpecial == Split(specialString, " ")
        clauses == {i \in 1..Len(splitSpecial) :
                       Slice(splitSpecial[i], 0, 5) = s_bookDash}
    IN  IF clauses = {} THEN FALSE
        ELSE LET first == CHOOSE i \in clauses : \A j \in clauses : i <= j
             IN  checkBookString(SliceFrom(splitSpecial[first], 5), books)

\* Math.pow(weight, pow) for pow = powTwice / 2 and a weight that is a square
Pow(weight, powTwice) ==
    (CHOOSE r \in 0..weight : r * r = weight) ^ powTwice

\* raceWeightList[raceName] = weight: a new key goes last, an old one stays
SetWeight(list, raceName, weight) ==
    IF \E i \in 1..Len(list) : list[i][1] = raceName
    THEN [i \in 1..Len(list) |->
             IF list[i][1] = raceName THEN <<raceName, weight>> ELSE list[i]]
    ELSE Append(list, <<raceName, weight>>)

\* the first loop of getRaceWeighted: <<raceWeightList, totalWeight>>
RECURSIVE WeightedRaces(_, _, _, _)
WeightedRaces(raceWeights, i, powTwice, acc) ==
    IF i > Len(raceWeights) THEN acc
    ELSE LET weight == Pow(raceWeights[i][2], powTwice) IN
         WeightedRaces(raceWeights, i + 1, powTwice,
             <<SetWeight(acc[1], raceWeights[i][1], weight), acc[2] + weight>>)

\* the second loop of getRaceWeighted
RECURSIVE UnweightedRaces(_, _, _, _)
UnweightedRaces(entries, i, books, acc) ==
    IF i > Len(entries) THEN acc
    ELSE LET tag == GetProp(entries[i][2], s_special).s IN
         UnweightedRaces(entries, i + 1, books,
             IF Includes(tag, s_PHB) \/ ~checkBookSpecial(tag, books) THEN acc
             ELSE <<SetWeight(acc[1], entries[i][1], 1), acc[2] + 1>>)

\* the last loop of getRaceWeighted
RECURSIVE PickWeighted(_, _, _)
PickWeighted(list, i, rand) ==
    IF i > Len(list) THEN Undef
    ELSE IF rand - list[i][2] <= 0 THEN Str(list[i][1])
    ELSE PickWeighted(list, i + 1, rand - list[i][2])

\* <<raceWeightList, totalWeight>> of getRaceWeighted after its two loops
RaceWeightList(races, raceWeights, books, powTwice) ==
    UnweightedRaces(races.e, 1, books,
        WeightedRaces(raceWeights, 1, powTwice, << << >>, 0 >>))

getRaceWeighted(races, raceWeights, books, powTwice) ==
    IF \E i \in 1..Len(races.e) : ~HasSpecialString(races.e[i][2])
    THEN {Throw}
    ELSE LET all == RaceWeightList(races, raceWeights, books, powTwice)
         IN  {PickWeighted(all[1], 1, rand) : rand \in RandomNum(all[2])}

\* raceSelection of Generate.Race
RaceSelection(cx) ==
    IF Len(cx.raceMenuValue) > 0 /\ cx.raceMenuValue # s_Random
    THEN {Str(cx.raceMenuValue)}
    ELSE IF cx.raceMode = "weighted"
    THEN getRaceWeighted(Data.races, Data.raceWeights, cx.usedBooks, 2)
    ELSE IF cx.raceMode = "weighted15"
    THEN getRaceWeighted(Data.races, Data.raceWeights, cx.usedBooks, 3)
    ELSE IF cx.raceMode = "weighted20"
    THEN getRaceWeighted(Data.races, Data.raceWeights, cx.usedBooks, 4)
    ELSE {Str(s_Random)}

\* Content.GetRandom as a stage: the value of the field and mcEthnicity
GetRandomEntry(item, dropdown, cx, g, mc) ==
    IF Abrupt(dropdown) THEN {Outcome(Throw, mc)}
    ELSE GetRandom(item, IF dropdown.k = "undef" THEN s_Random ELSE dropdown.s,
                   ResolverContext(cx, g), mc)

\* Generate.Race without its lock line
GenerateRaceAnew(cx, previous, mc) ==
    UNION {GetRandomEntry(Data.races, sel, cx, previous.Gender, mc) :
           sel \in RaceSelection(cx)}

\* Generate.Race; context.character is still the previous record
GenerateRace(cx, previous, mc) ==
    IF cx.locks.race THEN {Outcome(previous.Race, mc)}
    ELSE UNION {GetRandomEntry(Data.races, sel, cx, previous.Gender, mc) :
                sel \in RaceSelection(cx)}

\* Generate.Gender; context.character is the record of this run
GenerateGender(cx, c) ==
    IF cx.locks.gender THEN {c.Gender}
    ELSE IF cx.genderMenuValue = s_Random THEN RandomArray(Data.genders)
    ELSE {Str(cx.genderMenuValue)}

\* String.prototype.trim, for the blank character
RECURSIVE Trim(_)
Trim(s) ==
    IF Len(s) = 0 THEN s
    ELSE IF s[1] = " " THEN Trim(Tail(s))
    ELSE IF s[Len(s)] = " " THEN Trim(SubSeq(s, 1, Len(s) - 1))
    ELSE s

\* Generate.Name: the possible <<Name, ShortName>>, or <<Throw, Throw>>
GenerateName(cx, c, names) ==
    IF cx.locks.name THEN {<<c.Name, c.ShortName>>}
    ELSE IF Len(cx.nameInputValue) > 0 /\ Len(Trim(cx.nameInputValue)) > 0
    THEN {<<Str(Trim(cx.nameInputValue)), Str(Trim(cx.nameInputValue))>>}
    ELSE IF IsNullish(c.Race) THEN {<<Throw, Throw>>}
    ELSE {<<name, name>> : name \in names}

\* Generate.Class
GenerateClass(cx, c, mc) ==
    IF cx.locks.class THEN {Outcome(c.Class, mc)}
    ELSE GetRandomEntry(Data.classes,
             Str(IF Len(cx.classMenuValue) > 0 THEN cx.classMenuValue
                 ELSE s_Random), cx, c.Gender, mc)

\* Generate.Background
GenerateBackground(cx, c, mc) ==
    IF cx.locks.background THEN {Outcome(c.Background, mc)}
    ELSE GetRandomEntry(Data.backgrounds,
             Str(IF Len(cx.backgroundMenuValue) > 0 THEN cx.backgroundMenuValue
                 ELSE s_Random), cx, c.Gender, mc)

\* Life.Siblings as far as the assembler depends on it: null for no sibling,
\* else one entry for each sibling; it reads character.Name for each sibling
LifeSiblings(c) ==
    {IF numSiblings = 0 THEN Null
     ELSE IF IsNullish(c.Name) THEN Throw
     ELSE Obj([sibNum \in 1..numSiblings |->
                  <<<<ToString(sibNum)>>, Obj(<< >>)>>]) :
     numSiblings \in RandomNum(3)}

\* Life.Get as far as the assembler depends on it: the Origin with the
\* birthplace under its key and the siblings
LifeGet(c) ==
    IF IsNullish(c.Race) THEN {Throw}
    ELSE {IF Abrupt(siblings) THEN Throw
          ELSE Obj(<< <<<<"Origin">>,
                        Obj(<< <<IF GetProp(c.Race, s_name) = Str(<<"Warforged">>)
                                 THEN <<"Built">> ELSE <<"Birthplace">>, place>>,
                               <<<<"Siblings">>, siblings>> >>)>> >>) :
          place \in RandomArray(Data.birthplaces), siblings \in LifeSiblings(c)}

\* Names.Get(character.Race.name, character.Gender, context)
NamesGet(raceName, g) == RandomArray(Data.names)

\* the stages of Generate.All, each from the progress p of the stage before
StageRace(cx, previous) ==
    {IF Abrupt(o.v) THEN Failed
     ELSE Progress([EmptyCharacter EXCEPT !.Race = o.v], o.mc, TRUE) :
     o \in GenerateRace(cx, previous, Str(<< >>))}

StageGender(cx, p) ==
    {Progress([p.c EXCEPT !.Gender = g], p.mc, TRUE) :
        g \in GenerateGender(cx, p.c)}

StageName(cx, p) ==
    {IF Abrupt(n[1]) THEN Failed
     ELSE Progress([p.c EXCEPT !.Name = n[1], !.ShortName = n[2]], p.mc, TRUE) :
     n \in GenerateName(cx, p.c,
              IF IsNullish(p.c.Race) THEN {}
              ELSE NamesGet(GetProp(p.c.Race, s_name), p.c.Gender))}

StageClass(cx, p) ==
    {IF Abrupt(o.v) THEN Failed
     ELSE Progress([p.c EXCEPT !.Class = o.v], o.mc, TRUE) :
     o \in GenerateClass(cx, p.c, p.mc)}

StageBackground(cx, p) ==
    {IF Abrupt(o.v) THEN Failed
     ELSE Progress([p.c EXCEPT !.Background = o.v], o.mc, TRUE) :
     o \in GenerateBackground(cx, p.c, p.mc)}

StageNPC(cx, p) ==
    {Progress([p.c EXCEPT !.Occupation = occupation, !.NPCTraits = traits],
              p.mc, TRUE) :
        occupation \in GetOccupation(FALSE, {}), traits \in GetTraits(Data.npcs)}

StageLife(cx, p) ==
    {IF Abrupt(life) THEN Failed
     ELSE Progress([p.c EXCEPT !.Life = life], p.mc, TRUE) :
     life \in LifeGet(p.c)}

\* Generate.All(context) with the previous record in context.character; a
\* stage runs for every progress record that has not raised
GenerateAll(cx, previous) ==
    LET race == StageRace(cx, previous)
        gender == UNION {IF p.ok THEN StageGender(cx, p) ELSE {p} : p \in race}
        name == UNION {IF p.ok THEN StageName(cx, p) ELSE {p} : p \in gender}
        class == UNION {IF p.ok THEN StageClass(cx, p) ELSE {p} : p \in name}
        background ==
            UNION {IF p.ok THEN StageBackground(cx, p) ELSE {p} : p \in class}
        npc == UNION {IF p.ok THEN StageNPC(cx, p) ELSE {p} : p \in background}
    IN  UNION {IF p.ok THEN StageLife(cx, p) ELSE {p} : p \in npc}

\* ------------------------------------------------------------------------
\* State
\* ------------------------------------------------------------------------
VARIABLES
    usedBooks,        \* context.usedBooks
    ethnicityOption,  \* context.ethnicityOption
    gender,           \* context.character.Gender while the resolver is called
    mcEthnicity,      \* context.mcEthnicity
    arg,              \* the item and dropdownVal the resolver is called with,
                      \* and whether the item is a collection of entries
    call,             \* the last call of the resolver and its outcome
    locks,            \* the lock state of the page
    menu,             \* the dropdowns, the race mode and the name input
    character,        \* the character state of the page
    generated         \* how the last run of handleGenerateCharacter ended,
                      \* and how many runs in a row returned with the race
                      \* locked (counted up to two)

vars ==
    <<usedBooks, ethnicityOption, gender, mcEthnicity, arg, call, locks, menu,
      character, generated>>

pageVars == <<locks, menu, character, generated>>

resolverVars == <<gender, mcEthnicity, arg, call>>

Context ==
    [usedBooks |-> usedBooks, Gender |-> gender,
     ethnicityOption |-> ethnicityOption, data |-> Data]

NoCall == [op |-> "none", trace |-> << >>, out |-> Undef]

NoLocks == [key \in LockKeys |-> FALSE]

DefaultMenu ==
    [raceMode |-> "normal", raceMenuValue |-> s_Random,
     genderMenuValue |-> s_Random, classMenuValue |-> s_Random,
     backgroundMenuValue |-> s_Random, nameInputValue |-> << >>]

NotGenerated == [result |-> "none", runs |-> 0]

\* --- the Content resolver called on its own ---
InitContent ==
    /\ usedBooks \in UsedBookLists
    /\ mcEthnicity = Str(<< >>)
    \* the entries of the collections read neither the gender nor the option
    /\ \/ /\ arg \in [item : Nodes, dropdownVal : {s_Random},
                       collection : {FALSE}]
          /\ ethnicityOption \in EthnicityOptions
          /\ gender \in Genders \cup {Undef}
       \/ /\ arg \in [item : Collections, dropdownVal : {s_Random, k_A, k_B},
                       collection : {TRUE}]
          /\ ethnicityOption = s_standard
          /\ gender = Undef
    /\ call = NoCall
    /\ locks = NoLocks
    /\ menu = DefaultMenu
    /\ character = EmptyCharacter
    /\ generated = NotGenerated

\* Content.Get(item, context)
CallGet ==
    /\ \E o \in Get(arg.item, Context, mcEthnicity) :
          /\ call' = [op |-> "Get", trace |-> << >>, out |-> o.v]
          /\ mcEthnicity' = o.mc
    /\ UNCHANGED <<usedBooks, ethnicityOption, gender, arg>>
    /\ UNCHANGED pageVars

\* Content.Special(item, context)
CallSpecial ==
    /\ \/ /\ ~HasSpecialString(arg.item)
          /\ call' = [op |-> "Special", trace |-> << >>, out |-> Throw]
          /\ UNCHANGED mcEthnicity
       \/ /\ HasSpecialString(arg.item)
          /\ \E tr \in SpecialChain(arg.item, Context, mcEthnicity) :
             \E o \in SpecialReturn(tr[Len(tr)], Context) :
                /\ call' = [op |-> "Special", trace |-> tr, out |-> o.v]
                /\ mcEthnicity' = o.mc
    /\ UNCHANGED <<usedBooks, ethnicityOption, gender, arg>>
    /\ UNCHANGED pageVars

\* Content.GetRandom(item, dropdownVal, context) on a collection
CallGetRandom ==
    /\ arg.collection
    /\ \E o \in GetRandom(arg.item, arg.dropdownVal, Context, mcEthnicity) :
          /\ call' = [op |-> "GetRandom", trace |-> << >>, out |-> o.v]
          /\ mcEthnicity' = o.mc
    /\ UNCHANGED <<usedBooks, ethnicityOption, gender, arg>>
    /\ UNCHANGED pageVars

NextContent == CallGet \/ CallSpecial \/ CallGetRandom

SpecContent == InitContent /\ [][NextContent]_vars

\* --- the page generating characters ---
LockSets ==
    {NoLocks, [key \in LockKeys |-> TRUE]}
    \cup {[NoLocks EXCEPT ![key] = TRUE] : key \in LockKeys}

Menus ==
    {DefaultMenu, [DefaultMenu EXCEPT !.raceMenuValue = k_B],
     [DefaultMenu EXCEPT !.nameInputValue = <<" ", "Z">>]}
    \cup {[DefaultMenu EXCEPT !.raceMode = mode] :
             mode \in {"weighted", "weighted15", "weighted20"}}

\* buildContext
BuildContext ==
    [locks |-> locks, raceMode |-> menu.raceMode,
     raceMenuValue |-> menu.raceMenuValue,
     genderMenuValue |-> menu.genderMenuValue,
     classMenuValue |-> menu.classMenuValue,
     backgroundMenuValue |-> menu.backgroundMenuValue,
     nameInputValue |-> menu.nameInputValue,
     usedBooks |-> usedBooks, ethnicityOption |-> ethnicityOption]

\* records a first run of Generate.All returns with every lock open and
\* the menus as they are when the page opens
FirstCharacters ==
    {p.c : p \in {q \in GenerateAll([locks |-> NoLocks,
                                     raceMode |-> DefaultMenu.raceMode,
                                     raceMenuValue |-> DefaultMenu.raceMenuValue,
                                     genderMenuValue |-> DefaultMenu.genderMenuValue,
                                     classMenuValue |-> DefaultMenu.classMenuValue,
                                     backgroundMenuValue |->
                                         DefaultMenu.backgroundMenuValue,
                                     nameInputValue |-> DefaultMenu.nameInputValue,
                                     usedBooks |-> usedBooks,
                                     ethnicityOption |-> ethnicityOption],
                                    EmptyCharacter) :
                     q.ok /\ q.c.Occupation = Str(<<"Academic">>)}}

WithEBR == <<s_Real, s_PHB, s_EBR>>

Init ==
    /\ usedBooks \in {<<s_Real, s_PHB>>, WithEBR}
    /\ ethnicityOption = s_standard
    /\ gender = Undef
    /\ mcEthnicity = Str(<< >>)
    /\ arg = [item |-> Null, dropdownVal |-> s_Random, collection |-> FALSE]
    /\ call = NoCall
    /\ locks \in LockSets
    /\ menu \in Menus
    /\ \/ locks = NoLocks
       \/ locks = [NoLocks EXCEPT !.race = TRUE] /\ usedBooks = WithEBR
       \/ menu = DefaultMenu /\ usedBooks = WithEBR
    /\ character \in {EmptyCharacter} \cup FirstCharacters
    /\ generated = NotGenerated

\* handleGenerateCharacter
handleGenerateCharacter ==
    /\ IF locks.race /\ IsNullish(character.Race)
       THEN /\ generated' = [result |-> "alert", runs |-> 0]
            /\ UNCHANGED character
       ELSE \E p \in GenerateAll(BuildContext, character) :
               IF p.ok
               THEN /\ character' = p.c
                    /\ generated' =
                         [result |-> "returned",
                          runs |-> IF ~locks.race THEN 0
                                   ELSE IF generated.runs = 0 THEN 1 ELSE 2]
               ELSE /\ generated' = [result |-> "raised", runs |-> 0]
                    /\ UNCHANGED character
    /\ UNCHANGED <<usedBooks, ethnicityOption, locks, menu>>
    /\ UNCHANGED resolverVars

Next == handleGenerateCharacter

Spec == Init /\ [][Next]_vars

\* ------------------------------------------------------------------------
\* Properties of the Content resolver
\* ------------------------------------------------------------------------
Returned == call.op # "none" /\ ~Abrupt(call.out)

\* no empty sequence in v, at any depth
RECURSIVE NoEmptyContainer(_)
NoEmptyContainer(v) ==
    /\ ~(v.k = "arr" /\ Len(v.e) = 0)
    /\ \A i \in 1..Len(v.e) : NoEmptyContainer(v.e[i][2])

\* C5: emptiness propagates: a mapping whose children all resolve to null
\* resolves to null, so no value returned by Get, Special or GetRandom is an
\* empty sequence or holds one as the content of a trait.
C5_EmptinessPropagates == Returned => NoEmptyContainer(call.out)

\* the outcome of the opcode chain of the last call of Special
ChainEnd == call.trace[Len(call.trace)]

\* C6: when the opcode chain of a tagged mapping ends with a non-empty
\* scalar, Special returns that scalar.
C6_ScalarIsReturned ==
    (call.op = "Special" /\ Len(call.trace) > 0
        /\ ChainEnd.v.k = "str" /\ Len(ChainEnd.v.s) > 0)
    => call.out = ChainEnd.v

\* C7: once an opcode of a tag has returned null, every later opcode of the
\* tag leaves the node null and context.mcEthnicity as it was, and Special
\* returns null with the context unchanged.
C7_NullShortCircuits ==
    call.op = "Special" =>
        \A i \in 1..Len(call.trace) :
            IsNullish(call.trace[i].v) =>
                /\ \A j \in i..Len(call.trace) : call.trace[j] = call.trace[i]
                /\ call.out = Null
                /\ mcEthnicity = call.trace[i].mc

\* the opcodes of the tag of the item the resolver is called with
ArgCases == Split(GetProp(arg.item, s_special).s, " ")

\* C7 witness: a gate returned null and an ethnicity opcode came after it
C7_Witness ==
    /\ call.op = "Special"
    /\ Len(call.trace) = 2
    /\ call.trace[1].v = Null
    /\ ArgCases[2] \in {s_humanethnicity, s_halfethnicity}
    /\ call.trace[2].mc = Str(<< >>)

\* the keys of the collection that are tagged and pass the Book Filter
Eligible == RandomCandidates(arg.item.e, 1, usedBooks)

RandomCall == call.op = "GetRandom" /\ arg.dropdownVal = s_Random

\* C8: with the 'Random' sentinel GetRandom only returns an entry whose key
\* is tagged and passes the Book Filter against context.usedBooks.
C8_RandomReturnsEligible ==
    (RandomCall /\ Returned) =>
        \E i \in 1..Len(Eligible) : GetProp(call.out, s_name) = Eligible[i]

\* C9: with a concrete key K naming an entry of the collection GetRandom
\* returns {name: K, content: ...}; it does not fail, tagged entry or not.
C9_ConcreteKeyResolves ==
    (call.op = "GetRandom" /\ arg.dropdownVal # s_Random
        /\ HasOwnProperty(arg.item, arg.dropdownVal))
    => (Returned /\ GetProp(call.out, s_name) = Str(arg.dropdownVal))

\* C10: with the 'Random' sentinel on a collection without an eligible entry
\* GetRandom fails with an error; it returns nothing.
C10_NoEligibleEntryFails ==
    (RandomCall /\ Len(Eligible) = 0) => call.out = Throw

\* ------------------------------------------------------------------------
\* Properties of the character assembler
\* ------------------------------------------------------------------------
ReturnedRecord == generated'.result = "returned"

\* C1: when Generate.All returns, each of Gender, Name/ShortName, Class and
\* Background whose lock is set has the value it has in the previous record
C1_LockedFieldsCopied ==
    [][ReturnedRecord =>
          /\ (locks.gender /\ ~IsNullish(character.Gender))
                => character'.Gender = character.Gender
          /\ (locks.name /\ ~IsNullish(character.Name))
                => /\ character'.Name = character.Name
                   /\ character'.ShortName = character.ShortName
          /\ (locks.class /\ ~IsNullish(character.Class))
                => character'.Class = character.Class
          /\ (locks.background /\ ~IsNullish(character.Background))
                => character'.Background = character.Background]_vars

\* C2: when Generate.All returns, Occupation, NPCTraits and Life have the
\* value of the previous record when the occupation, traits or life lock
\* is set
C2_LockedNpcAndLifeCopied ==
    [][ReturnedRecord =>
          /\ (locks.occupation /\ ~IsNullish(character.Occupation))
                => character'.Occupation = character.Occupation
          /\ (locks.traits /\ ~IsNullish(character.NPCTraits))
                => character'.NPCTraits = character.NPCTraits
          /\ (locks.life /\ ~IsNullish(character.Life))
                => character'.Life = character.Life]_vars

\* C3: with the race locked, every record Generate.All returns has the Race
\* of the previous record, for every race menu value and race mode
C3_LockedRaceKept ==
    [][(locks.race /\ ReturnedRecord) => character'.Race = character.Race]_vars

\* two runs in a row returned with the race locked, and the race is not the
\* one the race menu asks for
C3_Witness ==
    /\ locks.race
    /\ generated = [result |-> "returned", runs |-> 2]
    /\ menu.raceMenuValue = k_B
    /\ GetProp(character.Race, s_name) = Str(k_A)

Present(v) == ~IsNullish(v)

NamedContent(v) ==
    /\ IsObject(v)
    /\ Present(GetProp(v, s_name))
    /\ Present(GetProp(v, s_content))

\* C4: a record Generate.All returns has every field present, and Race,
\* Class and Background have a name and a content
C4_NoElidedField ==
    generated.result = "returned" =>
        /\ NamedContent(character.Race)
        /\ NamedContent(character.Class)
        /\ NamedContent(character.Background)
        /\ Present(character.Gender)
        /\ Present(character.Name)
        /\ Present(character.ShortName)
        /\ Present(character.Occupation)
        /\ Present(character.NPCTraits)
        /\ Present(character.Life)

\* ------------------------------------------------------------------------
\* The functions of the engine called on their own: the inputs are in arg,
\* the result is in call
\* ------------------------------------------------------------------------
InitFunction ==
    /\ ethnicityOption = s_standard
    /\ gender = Undef
    /\ mcEthnicity = Str(<< >>)
    /\ call = NoCall
    /\ locks = NoLocks
    /\ menu = DefaultMenu
    /\ character = EmptyCharacter
    /\ generated = NotGenerated

\* the call op returned out
Result(op, out) == [op |-> op, trace |-> << >>, out |-> out]

\* a call of a function changes nothing else
FunctionFrame ==
    /\ UNCHANGED <<usedBooks, ethnicityOption, gender, mcEthnicity, arg>>
    /\ UNCHANGED pageVars

\* --- the Book Filter ---
\* number of clauses of a requirement token
MaxClauses == 3

\* the clauses a requirement token is made of
Clauses ==
    {s_bookDash \o s_PHB, s_bookDash \o s_EBR, s_bookDash \o s_SCAG \o s_EBR,
     s_bookDash, s_booksort}

RECURSIVE ClauseLists(_)
ClauseLists(n) ==
    IF n = 0 THEN {<< >>}
    ELSE ClauseLists(n - 1)
         \cup {Append(cs, c) : cs \in {q \in ClauseLists(n - 1) : Len(q) = n - 1},
                               c \in Clauses}

\* the requirement token with the clauses cs: cs.join(' ')
RECURSIVE Token(_)
Token(cs) ==
    IF Len(cs) = 0 THEN << >>
    ELSE IF Len(cs) = 1 THEN cs[1]
    ELSE cs[1] \o <<" ">> \o Token(Tail(cs))

InitBooks ==
    /\ InitFunction
    /\ usedBooks \in UsedBookLists
    /\ arg \in [clauses : ClauseLists(MaxClauses) \ {<< >>}]

\* checkBookSpecial(specialString, usedBooks)
CallCheckBookSpecial ==
    /\ call' = Result("checkBookSpecial",
                      checkBookSpecial(Token(arg.clauses), usedBooks))
    /\ FunctionFrame

NextBooks == CallCheckBookSpecial

SpecBooks == InitBooks /\ [][NextBooks]_vars

IsBookClause(c) == Len(c) >= 5 /\ SubSeq(c, 1, 5) = s_bookDash

\* some used book occurs in the code string of the book clause c
ClauseAvailable(c) ==
    \E b \in 1..Len(usedBooks) : Includes(SubSeq(c, 6, Len(c)), usedBooks[b])

\* C11: the Book Filter is true iff the token has a clause starting with
\* 'book-' and some used book occurs in the code string of the first such
\* clause; later clauses and the clauses before it do not count.
C11_FirstBookClauseDecides ==
    call.op = "checkBookSpecial" =>
        call.out = (\E i \in 1..Len(arg.clauses) :
                       /\ IsBookClause(arg.clauses[i])
                       /\ \A j \in 1..(i - 1) : ~IsBookClause(arg.clauses[j])
                       /\ ClauseAvailable(arg.clauses[i]))

\* the first book clause, after a clause of another kind, fails and a later
\* book clause would have matched
C11_Witness ==
    /\ call.op = "checkBookSpecial"
    /\ Len(arg.clauses) = 3
    /\ ~IsBookClause(arg.clauses[1])
    /\ IsBookClause(arg.clauses[2]) /\ ~ClauseAvailable(arg.clauses[2])
    /\ IsBookClause(arg.clauses[3]) /\ ClauseAvailable(arg.clauses[3])
    /\ call.out = FALSE

\* --- the weighted race draw ---
\* number of races of the catalog
MaxRaces == 3

k_C == <<"C">>

\* the entries of a race catalog: gated to a book, or without a tag
RaceEntries ==
    {PlainEntry(s_PHB), PlainEntry(s_EBR), PlainEntry(s_SCAG),
     Obj(<< <<k_t, Str(<<"x">>)>> >>)}

RaceKeys == <<k_A, k_B, k_C, <<"D">>, <<"E">> >>

\* the catalogs of the races A, B, ... in this order
RaceCatalogs ==
    UNION {{Obj([i \in 1..n |-> <<RaceKeys[i], es[i]>>]) :
               es \in [1..n -> RaceEntries]} : n \in 0..MaxRaces}

\* data.other.raceWeights: the weights are squares, so that weight^1.5 is
\* a whole number
RaceWeightTables ==
    {<< >>, << <<k_A, 4>> >>, << <<k_B, 4>>, <<k_A, 1>> >>,
     << <<<<"Z">>, 1>>, <<k_B, 4>> >>}

InitRaces ==
    /\ InitFunction
    /\ usedBooks \in UsedBookLists
    /\ arg \in [races : RaceCatalogs, raceWeights : RaceWeightTables,
                 powTwice : {2, 3, 4}]

\* getRaceWeighted(races, other, usedBooks, pow); the trace holds
\* raceWeightList and totalWeight as they are before the draw
CallGetRaceWeighted ==
    /\ \E race \in getRaceWeighted(arg.races, arg.raceWeights, usedBooks,
                                    arg.powTwice) :
          call' = [op |-> "getRaceWeighted",
                   trace |-> IF race = Throw THEN << >>
                             ELSE RaceWeightList(arg.races, arg.raceWeights,
                                                 usedBooks, arg.powTwice),
                   out |-> race]
    /\ FunctionFrame

NextRaces == CallGetRaceWeighted

SpecRaces == InitRaces /\ [][NextRaces]_vars

\* the race names of the weight table and their weights there
TableNames == {arg.raceWeights[i][1] : i \in 1..Len(arg.raceWeights)}

TableWeight(name) ==
    LET i == CHOOSE j \in 1..Len(arg.raceWeights) : arg.raceWeights[j][1] = name
    IN  arg.raceWeights[i][2]

\* the catalog races that are not gated to PHB and pass the Book Filter
OpenRaces ==
    {arg.races.e[i][1] : i \in
        {j \in 1..Len(arg.races.e) :
            LET clause == SliceFrom(GetProp(arg.races.e[j][2], s_special).s, 5)
            IN  /\ clause # s_PHB
                /\ \E b \in 1..Len(usedBooks) : Includes(clause, usedBooks[b])}}

\* the weight the list of the last call gives to the race name, 0 for none
ListedWeight(name) ==
    LET list == call.trace[1]
        at == {i \in 1..Len(list) : list[i][1] = name}
    IN  IF at = {} THEN 0 ELSE list[CHOOSE i \in at : TRUE][2]

RECURSIVE SumWeights(_)
SumWeights(list) ==
    IF Len(list) = 0 THEN 0 ELSE list[1][2] + SumWeights(Tail(list))

WeightsDrawn == call.op = "getRaceWeighted" /\ Len(call.trace) = 2

\* C12: a race of the weight table has the weight weight^p, a catalog race
\* that is not in the table, not gated to PHB and passes the Book Filter
\* has the weight 1, no other race has a weight, and the total of the draw
\* is the sum of these weights.
C12_EffectiveWeights ==
    WeightsDrawn =>
        /\ \A name \in TableNames :
               ListedWeight(name) = Pow(TableWeight(name), arg.powTwice)
        /\ \A name \in OpenRaces \ TableNames : ListedWeight(name) = 1
        /\ \A i \in 1..Len(call.trace[1]) :
               call.trace[1][i][1] \in TableNames \cup OpenRaces
        /\ call.trace[2] = SumWeights(call.trace[1])

\* the number of the outcomes of Random.Num(totalWeight) that give the race
Draws(name) ==
    Cardinality({rand \in RandomNum(call.trace[2]) :
                    PickWeighted(call.trace[1], 1, rand) = Str(name)})

\* C13: with exponent 1 and an empty weight table every race that is not
\* gated to PHB and passes the Book Filter is given by the same number of
\* outcomes of the draw, and by one at least.
C13_UniformOverOpenRaces ==
    (WeightsDrawn /\ arg.raceWeights = << >> /\ arg.powTwice = 2) =>
        \A r1, r2 \in OpenRaces : Draws(r1) = Draws(r2) /\ Draws(r1) > 0

\* --- the NPC generator ---
\* size of the two ability tables
MaxAbilities == 4

AbilityTable(n) == Arr([i \in 1..n |-> Str(<<ToString(i - 1)>>)])

\* data.npcs with ability tables of size n
NpcTables(n) ==
    [Data.npcs EXCEPT !.highAbilities = AbilityTable(n),
                      !.lowAbilities = AbilityTable(n)]

InitNPC ==
    /\ InitFunction
    /\ usedBooks = <<s_Real, s_PHB>>
    /\ arg \in [npcs : {NpcTables(n) : n \in 2..MaxAbilities},
                 allowAdventurer : BOOLEAN,
                 classes : {{}, {<<"Fighter">>, <<"Wizard">>}}]

\* NPC.GetTraits(data)
CallGetTraits ==
    /\ \E traits \in GetTraits(arg.npcs) : call' = Result("GetTraits", traits)
    /\ FunctionFrame

\* NPC.GetOccupation(allowAdventurer, classWeightedFn); the trace holds rand
CallGetOccupation ==
    /\ \E r \in GetOccupationRolls(arg.allowAdventurer, arg.classes) :
          call' = [op |-> "GetOccupation", trace |-> <<r[1]>>, out |-> r[2]]
    /\ FunctionFrame

NextNPC == CallGetTraits \/ CallGetOccupation

SpecNPC == InitNPC /\ [][NextNPC]_vars

HighAbility == GetProp(call.out, <<"High Ability">>)

LowAbility == GetProp(call.out, <<"Low Ability">>)

\* the index of the entry v of an ability table, counted from 0
AbilityIndex(v) ==
    CHOOSE i \in 0..(Len(arg.npcs.highAbilities.e) - 1) :
        At(arg.npcs.highAbilities, i) = v

AbilitySize == Len(arg.npcs.highAbilities.e)

\* C14: the Low Ability differs from the High Ability, both are entries of
\* the tables, and every index but the high one can be the low index.
C14_LowDiffersFromHigh ==
    call.op = "GetTraits" =>
        /\ HighAbility # LowAbility
        /\ \E i \in 0..(AbilitySize - 1) : At(arg.npcs.highAbilities, i) = HighAbility
        /\ \E i \in 0..(AbilitySize - 1) : At(arg.npcs.lowAbilities, i) = LowAbility
        /\ {hl[2] : hl \in {x \in AbilityIndices(arg.npcs) :
                                x[1] = AbilityIndex(HighAbility)}}
             = (0..(AbilitySize - 1)) \ {AbilityIndex(HighAbility)}

\* the low draw was the high index and was moved up by one
C14_Witness ==
    /\ call.op = "GetTraits"
    /\ AbilitySize > 2
    /\ AbilityIndex(HighAbility) = 1
    /\ AbilityIndex(LowAbility) = 2

\* the civilian occupations with the rolls below which they are given
OccupationTable ==
    << <<5, <<"Academic">> >>, <<10, <<"Aristocrat">> >>,
       <<25, <<"Artisan or guild member">> >>, <<30, <<"Criminal">> >>,
       <<35, <<"Entertainer">> >>, <<37, <<"Exile, hermit, or refugee">> >>,
       <<42, <<"Explorer or wanderer">> >>, <<54, <<"Farmer or herder">> >>,
       <<59, <<"Hunter or trapper">> >>, <<74, <<"Laborer">> >>,
       <<79, <<"Merchant">> >>, <<84, <<"Politician or bureaucrat">> >>,
       <<89, <<"Priest">> >>, <<94, <<"Sailor">> >>, <<99, <<"Soldier">> >> >>

\* the civilian occupation of a roll below 99
Civilian(rand) ==
    LET i == CHOOSE j \in 1..Len(OccupationTable) :
                 /\ rand < OccupationTable[j][1]
                 /\ \A k \in 1..(j - 1) : rand >= OccupationTable[k][1]
    IN  Str(OccupationTable[i][2])

AdventurerOf(cls) == Str(<<"Adventurer (">> \o cls \o <<")">>)

\* C15: without allowAdventurer the occupation is always one of the 15
\* civilian ones; with it the roll 99, and no other, gives 'Adventurer ('
\* + fn() + ')', or 'Adventurer (Adventurer)' without a callback, and a
\* roll below 99 gives the civilian occupation of the table; each of the
\* 15 civilian occupations can be returned.
C15_OccupationOfRoll ==
    call.op = "GetOccupation" =>
        LET rand == call.trace[1] IN
        /\ ~arg.allowAdventurer => rand < 99
        /\ rand < 99 => call.out = Civilian(rand)
        /\ Cardinality({Civilian(r) : r \in 0..98}) = 15
        /\ \A r \in 0..98 :
               Civilian(r) \in GetOccupation(arg.allowAdventurer, arg.classes)
        /\ rand >= 99 =>
              /\ rand = 99
              /\ IF arg.classes = {}
                 THEN call.out = AdventurerOf(<<"Adventurer">>)
                 ELSE \E cls \in arg.classes : call.out = AdventurerOf(cls)

\* the roll 99 with a callback
C15_Witness ==
    /\ call.op = "GetOccupation"
    /\ call.trace[1] = 99
    /\ arg.classes # {}
    /\ call.out = AdventurerOf(<<"Wizard">>)

\* ------------------------------------------------------------------------
\* Life generator (life.js): the life events
\* ------------------------------------------------------------------------
s_WeirdStuff == <<"Weird Stuff">>
s_LifeEvents == <<"Life Events">>

\* obj[key] = value on the entries of an object
SetProp(entries, key, value) ==
    IF \E i \in 1..Len(entries) : entries[i][1] = key
    THEN [i \in 1..Len(entries) |->
             IF entries[i][1] = key THEN <<key, value>> ELSE entries[i]]
    ELSE Append(entries, <<key, value>>)

\* newEventType for the roll randomEventNum
EventTypeOfRoll(life, randomEventNum) ==
    IF randomEventNum = 99 THEN s_WeirdStuff
    ELSE ToPropertyKey(At(GetProp(life.eventTables, s_LifeEvents),
                          randomEventNum \div 5))

\* the <<randomEventNum, newEventType>> of one pass of the do loop
EventRolls(life) ==
    {<<randomEventNum, EventTypeOfRoll(life, randomEventNum)>> :
        randomEventNum \in RandomNum(100)}

\* the do loop left after its first pass, whatever lifeEvents holds
NewEventRollsFirstPass(life, lifeEvents) == EventRolls(life)

\* the <<randomEventNum, newEventType>> the do loop can end with
NewEventRolls(life, lifeEvents) ==
    {r \in EventRolls(life) : ~HasOwnProperty(Obj(lifeEvents), r[2])}

\* newEvent for the event types that have a table of their own or none
NewEvent(life, newEventType) ==
    IF newEventType = <<"Job">> THEN {Str(<<"job">>)}
    ELSE RandomArray(GetProp(life.eventTables, newEventType))

\* the for loop of Life.LifeEvents from eventNum on: the possible
\* [v, row], v the mapping returned and row the row of 'Life Events' the
\* last randomEventNum selected, 99 for the roll 99
RECURSIVE LifeEventsFrom(_, _, _, _)
LifeEventsFrom(life, lifeEvents, eventNum, numEvents) ==
    LET rolls == NewEventRolls(life, lifeEvents)
        types == {r[2] : r \in rolls}
        last == eventNum + 1 = numEvents
    IN  IF rolls = {} THEN {[v |-> Hang, row |-> 0]}
        ELSE UNION {UNION {
                 IF Abrupt(newEvent) THEN {[v |-> newEvent, row |-> 0]}
                 ELSE IF last
                 THEN {[v |-> Obj(SetProp(lifeEvents, type, newEvent)),
                        row |-> row] :
                          row \in {IF q[1] = 99 THEN 99 ELSE q[1] \div 5 :
                                      q \in {r \in rolls : r[2] = type}}}
                 ELSE LifeEventsFrom(life, SetProp(lifeEvents, type, newEvent),
                                     eventNum + 1, numEvents) :
                 newEvent \in NewEvent(life, type)} : type \in types}

\* Life.LifeEvents(context): the possible [v, row, numEvents]
LifeEvents(life) ==
    UNION {{[v |-> o.v, row |-> o.row, numEvents |-> 3 + n] :
               o \in LifeEventsFrom(life, << >>, 0, 3 + n)} :
           n \in RandomNum(3)}

\* number of event categories of the table 'Life Events'
MaxCategories == 5

EventCategories ==
    <<<<"Tragedy">>, <<"Boon">>, <<"War">>, <<"Job">>, <<"Supernatural">>,
      <<"Arcane Matters">>, <<"Crime and Punishment">> >>

\* data.life with a table 'Life Events' of 20 rows over k categories and
\* one table for each category
LifeTables(k) ==
    [eventTables |->
        Obj(<< <<s_LifeEvents,
                 Arr([i \in 1..20 |-> Str(EventCategories[((i - 1) % k) + 1])])>>,
               <<s_WeirdStuff, Arr(<<Str(<<"w">>)>>)>> >>
            \o [i \in 1..k |-> <<EventCategories[i], Arr(<<Str(<<"e">>)>>)>>])]

InitLifeEvents ==
    /\ InitFunction
    /\ usedBooks = <<s_Real, s_PHB>>
    /\ arg \in [life : {LifeTables(k) : k \in 3..MaxCategories}]

\* Life.LifeEvents(context), called once; the trace holds numEvents and the
\* row of the last randomEventNum
CallLifeEvents ==
    /\ call = NoCall
    /\ \E o \in LifeEvents(arg.life) :
          call' = [op |-> "LifeEvents", trace |-> <<o.numEvents, o.row>>,
                   out |-> o.v]
    /\ FunctionFrame

NextLifeEvents == CallLifeEvents

SpecLifeEvents == InitLifeEvents /\ [][NextLifeEvents]_vars

\* C16: the mapping Life.LifeEvents returns has pairwise distinct keys, as
\* many as were drawn, which is 3, 4 or 5; the roll 99 gives 'Weird Stuff'.
C16_DistinctLifeEvents ==
    (call.op = "LifeEvents" /\ ~Abrupt(call.out)) =>
        LET keys == [i \in 1..Len(call.out.e) |-> call.out.e[i][1]] IN
        /\ \A i, j \in 1..Len(keys) : keys[i] = keys[j] => i = j
        /\ Len(keys) = call.trace[1]
        /\ Len(keys) \in {3, 4, 5}
        /\ call.trace[2] = 99 => keys[Len(keys)] = s_WeirdStuff
        /\ call.trace[2] < 99 =>
               keys[Len(keys)] =
                   At(GetProp(arg.life.eventTables, s_LifeEvents), call.trace[2]).s

\* five events, the last one from the roll 99
C16_Witness ==
    /\ call.op = "LifeEvents"
    /\ ~Abrupt(call.out)
    /\ Len(call.out.e) = 5
    /\ call.trace[2] = 99

\* ------------------------------------------------------------------------
\* Life generator (life.js): the siblings
\* ------------------------------------------------------------------------
s_Human == <<"Human">>
s_Tabaxi == <<"Tabaxi">>
s_Aasimar == <<"Aasimar">>
s_Warforged == <<"Warforged">>
s_Race == <<"Race">>
s_Gender == <<"Gender">>

\* String.prototype.substring(start, end), 0 <= start <= end
Substring(s, start, end) ==
    SubSeq(s, start + 1, IF end < Len(s) THEN end ELSE Len(s))

\* String.prototype.lastIndexOf(ch)
LastIndexOf(s, ch) ==
    IF \E i \in 1..Len(s) : s[i] = ch
    THEN (CHOOSE i \in 1..Len(s) :
              s[i] = ch /\ \A j \in (i + 1)..Len(s) : s[j] # ch) - 1
    ELSE -1

s_HalfElf == <<"Half-Elf">>
s_HalfOrc == <<"Half-Orc">>
s_Tiefling == <<"Tiefling">>
s_Genasi == <<"Genasi">>
s_Elf == <<"Elf">>
s_Orc == <<"Orc">>

\* Life.SiblingRace(parents, character)
SiblingRace(parents, c) ==
    LET raceName == GetProp(c.Race, s_name)
        Human == Str(s_Human)
    IN
    CASE raceName = Str(s_HalfElf) ->
           IF parents = Str(<<"One parent was an elf and the other was a half-elf.">>)
           THEN RandomArray(Arr(<<Str(s_Elf), Str(s_HalfElf)>>))
           ELSE IF parents = Str(<<"One parent was a human and the other was a half-elf.">>)
           THEN RandomArray(Arr(<<Human, Str(s_HalfElf)>>))
           ELSE {Str(s_HalfElf)}
      [] raceName = Str(s_HalfOrc) ->
           IF parents = Str(<<"One parent was an orc and the other was a half-orc.">>)
           THEN RandomArray(Arr(<<Str(s_Orc), Str(s_HalfOrc)>>))
           ELSE IF parents = Str(<<"One parent was an human and the other was a half-orc.">>)
           THEN RandomArray(Arr(<<Human, Str(s_HalfOrc)>>))
           ELSE {Str(s_HalfOrc)}
      [] raceName = Str(s_Tiefling) ->
           IF parents = Str(<<"Both parents were humans, their infernal heritage dormant until you came along.">>)
           THEN RandomArray(Arr(<<Human, Human, Human, Str(s_Tiefling)>>))
           ELSE IF parents = Str(<<"One parent was a tiefling and the other was a human.">>)
           THEN RandomArray(Arr(<<Human, Str(s_Tiefling)>>))
           ELSE {Str(s_Tiefling)}
      [] raceName = Str(s_Genasi) ->
           IF parents = Str(<<"One parent was a genasi and the other was a human.">>)
           THEN RandomArray(Arr(<<Human, Str(s_Genasi)>>))
           ELSE IF parents = Str(<<"Both parents were humans, their elemental heritage dormant until you came along.">>)
           THEN RandomArray(Arr(<<Human, Human, Human, Str(s_Genasi)>>))
           ELSE {Str(s_Genasi)}
      [] raceName = Str(s_Aasimar) ->
           IF parents = Str(<<"Both parents were humans, their celestial heritage dormant until you came along.">>)
           THEN {Human}
           ELSE RandomArray(Arr(<<Human, Str(s_Aasimar)>>))
      [] OTHER -> {raceName}

\* Names.Get(race, gender, context) and Names.GetHuman(ethnicity, gender,
\* context): a name of the race out of data.names
NamesOfRace(names, raceName, g) == RandomArray(GetProp(names, ToPropertyKey(raceName)))

\* Life.SiblingName(sibling, character, context)
SiblingName(names, siblingRace, siblingGender, c) ==
    IF siblingRace = Str(s_Tabaxi)
    THEN RandomArray(GetProp(GetProp(names, s_Tabaxi), <<"Name">>))
    ELSE {IF name.k # "str" THEN Throw
          ELSE LET lastSpace == LastIndexOf(name.s, " ") IN
               IF lastSpace < 0 THEN name
               ELSE Str(Substring(name.s, 0, lastSpace)) :
          name \in NamesOfRace(names, siblingRace, siblingGender)}

\* newSibName === character.Name.substring(0, newSibName.length)
IsOwnNamePrefix(newSibName, c) ==
    newSibName.s = Substring(c.Name.s, 0, Len(newSibName.s))

\* the names the sibling can get when the first candidate is kept
SiblingNamesFirstDraw(candidates, c) ==
    IF c.Name.k # "str" THEN {Throw}
    ELSE {IF n.k # "str" THEN Throw ELSE n : n \in candidates}

\* the names the while loop of Life.Siblings can end with
SiblingNames(candidates, c) ==
    LET named == {n \in candidates : n.k = "str"}
        kept == {n \in named : ~IsOwnNamePrefix(n, c)}
    IN  IF c.Name.k # "str" THEN {Throw}
        ELSE IF named # candidates THEN kept \cup {Throw}
        ELSE IF kept = {} THEN {Hang}
        ELSE kept

\* the for loop of Life.Siblings from sibNum on; the sibling records hold
\* Gender and Race
RECURSIVE SiblingsFrom(_, _, _, _, _, _)
SiblingsFrom(data, parents, c, siblings, sibNum, numSiblings) ==
    IF sibNum >= numSiblings THEN {Obj(siblings)}
    ELSE UNION {UNION {UNION {
             IF Abrupt(newSibName) THEN {newSibName}
             ELSE SiblingsFrom(data, parents, c,
                      SetProp(siblings, newSibName.s,
                              Obj(IF race = Str(s_Warforged)
                                  THEN << <<s_Race, race>> >>
                                  ELSE << <<s_Gender, g>>, <<s_Race, race>> >>)),
                      sibNum + 1, numSiblings) :
             newSibName \in SiblingNames(SiblingName(data.names, race, g, c),
                                         c)} :
           g \in IF race = Str(s_Warforged) THEN {Undef}
                 ELSE RandomArray(data.genders)} :
         race \in SiblingRace(parents, c)}

\* Life.Siblings(parents, context)
Siblings(data, parents, c) ==
    UNION {IF numSiblings = 0 THEN {Null}
           ELSE SiblingsFrom(data, parents, c, << >>, 0, numSiblings) :
           numSiblings \in RandomNum(3)}

\* number of names of a race in data.names
MaxNames == 2

FullNames ==
    <<<<"A", "n", "n", " ", "L", "e", "e">>, <<"A", "n", " ", "L", "e", "e">>,
      <<"A", "n", "n", "a", " ", "L", "e", "e">>, <<"B", "o">> >>

NamePools ==
    {SetToSeq(S) : S \in {T \in SUBSET {Str(FullNames[i]) : i \in 1..Len(FullNames)} :
                             Cardinality(T) \in 1..MaxNames}}

\* data.names with the same names for every race
NameTables(pool) ==
    Obj(<< <<s_Human, Arr(pool)>>, <<s_Aasimar, Arr(pool)>>,
           <<s_Tabaxi, Obj(<< <<<<"Name">>, Arr(pool)>> >>)>> >>)

InitSiblings ==
    /\ InitFunction
    /\ usedBooks = <<s_Real, s_PHB>>
    /\ arg \in [data : {[names |-> NameTables(pool), genders |-> Data.genders] :
                           pool \in NamePools},
                 parents : {Undef},
                 character : [Race : {Obj(<< <<s_name, Str(r)>> >>) :
                                         r \in {s_Human, s_Tabaxi, s_Aasimar}},
                              Name : {Undef, Str(FullNames[1]), Str(FullNames[4]),
                                      Str(<<"A", "n", "n">>)}]]

\* Life.Siblings(parents, context), called once
CallSiblings ==
    /\ call = NoCall
    /\ \E o \in Siblings(arg.data, arg.parents, arg.character) :
          call' = Result("Siblings", o)
    /\ FunctionFrame

NextSiblings == CallSiblings

SpecSiblings == InitSiblings /\ [][NextSiblings]_vars

BookSortWrites(specialItem) ==
    IF HasOwnProperty(specialItem, s_special)
    THEN DeleteProp(specialItem, s_special) ELSE specialItem

\* the corpus node item after the case subracesort ran on its clone
SubraceSortWrites(item, splitSpecial) ==
    LET propName == SubracePropName(splitSpecial)
        subracesAndVariants == GetProp(item, s_SubracesAndVariants)
        subrace == GetProp(subracesAndVariants, propName)
    IN  IF HasOwnProperty(subracesAndVariants, propName) /\ subrace.k = "obj"
        THEN [item EXCEPT !.e =
                 SetProp(item.e, s_SubracesAndVariants,
                     [subracesAndVariants EXCEPT !.e =
                         SetProp(subracesAndVariants.e, propName,
                                 BookSortWrites(subrace))])]
        ELSE item

\* the corpus node item after the opcode loop of Special made the run tr
SpecialWrites(item, tr) ==
    LET cases == Split(GetProp(item, s_special).s, " ")
        clone == DeleteProp(item, s_special)
        sorts == {i \in 1..Len(tr) :
                     /\ Split(cases[i], "-")[1] = s_subracesort
                     /\ (IF i = 1 THEN clone ELSE tr[i - 1].v) = clone}
    IN  IF sorts = {} THEN item
        ELSE SubraceSortWrites(item,
                 Split(cases[CHOOSE i \in sorts : \A j \in sorts : i <= j], "-"))

\* Content.Special(item[key], context) on the collection item: the possible
\* [o, tr, item] with the outcome, the run of the opcode loop and the
\* collection afterwards
SpecialRuns(item, key, ctx, mc) ==
    LET node == GetProp(item, key) IN
    IF ~HasSpecialString(node)
    THEN {[o |-> Outcome(Throw, mc), tr |-> << >>, item |-> item]}
    ELSE UNION {{[o |-> o, tr |-> tr,
                  item |-> [item EXCEPT !.e =
                               SetProp(item.e, key, SpecialWrites(node, tr))]] :
                 o \in SpecialReturn(tr[Len(tr)], ctx)} :
                tr \in SpecialChain(node, ctx, mc)}

s_Hill == <<"H", "i", "l", "l">>
s_Mountain == <<"M", "o", "u", "n", "t", "a", "i", "n">>

\* the subraces by book
SubraceBooks ==
    << <<s_PHB, Arr(<<Str(s_Hill)>>)>>, <<s_EBR, Arr(<<Str(s_Mountain)>>)>> >>

SubraceTables ==
    {Arr(<<Str(s_Hill), Str(s_Mountain)>>), Obj(SubraceBooks),
     Tagged(s_booksort, SubraceBooks)}

\* a race with subraces
SubraceEntry(book, subrace) ==
    Tagged(s_bookDash \o book \o <<" ">> \o s_subracesort,
           << <<s_SubracesAndVariants, Obj(<< <<s_Subrace, subrace>> >>)>>,
              <<s_PhysicalCharacteristics,
                Obj(<< <<s_Hill, Str(<<"h">>)>>, <<s_Mountain, Str(<<"m">>)>> >>)>> >>)

RaceNodes ==
    {SubraceEntry(s_PHB, t) : t \in SubraceTables}
    \cup {SubraceEntry(s_EBR, Tagged(s_booksort, SubraceBooks)), PlainEntry(s_PHB)}

\* data.races, as loaded and as it is now
InitCorpus ==
    /\ usedBooks \in UsedBookLists
    /\ ethnicityOption = s_standard
    /\ gender = Undef
    /\ mcEthnicity = Str(<< >>)
    /\ arg \in {[races |-> Obj(<< <<k_A, a>>, <<k_B, b>> >>),
                  loaded |-> Obj(<< <<k_A, a>>, <<k_B, b>> >>)] :
                 a \in RaceNodes, b \in RaceNodes}
    /\ call = NoCall
    /\ locks = NoLocks
    /\ menu = DefaultMenu
    /\ character = EmptyCharacter
    /\ generated = NotGenerated

\* Content.GetRandom(data.races, dropdownVal, context) for a race of the menu
CallGetRandomOfMenu ==
    /\ \E dropdownVal \in {k_A, k_B} :
       \E r \in SpecialRuns(arg.races, dropdownVal, Context, mcEthnicity) :
          /\ call' = [op |-> "GetRandom", trace |-> r.tr,
                      out |-> IF Abrupt(r.o.v) THEN r.o.v
                              ELSE Trait(Str(dropdownVal), r.o.v)]
          /\ mcEthnicity' = r.o.mc
          /\ arg' = [arg EXCEPT !.races = r.item]
    /\ UNCHANGED <<usedBooks, ethnicityOption, gender>>
    /\ UNCHANGED pageVars

\* Content.GetRandom(data.races, 'Random', context)
CallGetRandomOfAll ==
    /\ \E randomProp \in RandomArray(Arr(RandomCandidates(arg.races.e, 1, usedBooks))) :
       \E r \in SpecialRuns(arg.races, ToPropertyKey(randomProp), Context, mcEthnicity) :
          /\ call' = [op |-> "GetRandom", trace |-> r.tr,
                      out |-> IF Abrupt(r.o.v) THEN r.o.v
                              ELSE Trait(randomProp, r.o.v)]
          /\ mcEthnicity' = r.o.mc
          /\ arg' = [arg EXCEPT !.races = r.item]
    /\ UNCHANGED <<usedBooks, ethnicityOption, gender>>
    /\ UNCHANGED pageVars

NextCorpus == CallGetRandomOfMenu \/ CallGetRandomOfAll

SpecCorpus == InitCorpus /\ [][NextCorpus]_vars

\* C18: after any sequence of calls of the resolver every corpus node, its
\* _special tag included, is what it was when the corpus was loaded.
C18_CorpusNeverMutated == arg.races = arg.loaded

\* ------------------------------------------------------------------------
\* Generate.All stage by stage.  arg.p is the progress of the run: p.c the
\* local record character, p.mc context.mcEthnicity, p.ok FALSE once a stage
\* raised; arg.context says which record context.character refers to, the
\* previous record of the page or the record of this run; call.trace lists
\* the stages entered.
\* ------------------------------------------------------------------------
StageOrder ==
    <<"Race", "Gender", "Name", "Class", "Background", "Occupation",
      "NPCTraits", "Life">>

\* context.character left as buildContext set it
ContextKept == "previous"

\* context.character = character
ContextAssigned == "record"

\* the record context.character refers to
ContextCharacter == IF arg.context = "record" THEN arg.p.c ELSE character

\* the run is at the stage number n + 1
AtStage(n) == call.op = "All" /\ Len(call.trace) = n /\ arg.p.ok

\* the stage is entered
Entered == call' = [call EXCEPT !.trace = Append(@, StageOrder[Len(@) + 1])]

\* the stage raised
Raised ==
    /\ arg' = [arg EXCEPT !.p.ok = FALSE]
    /\ call' = [call EXCEPT !.trace = Append(@, StageOrder[Len(@) + 1]),
                            !.out = Throw]

StageFrame ==
    /\ UNCHANGED <<usedBooks, ethnicityOption, gender, mcEthnicity>>
    /\ UNCHANGED pageVars

InitAll ==
    /\ usedBooks = WithEBR
    /\ ethnicityOption = s_standard
    /\ gender = Undef
    /\ mcEthnicity = Str(<< >>)
    /\ locks \in LockSets
    /\ menu \in {DefaultMenu, [DefaultMenu EXCEPT !.nameInputValue = <<" ", "Z">>]}
    /\ character \in {EmptyCharacter} \cup FirstCharacters
    /\ ~(locks.race /\ IsNullish(character.Race))
    /\ generated = NotGenerated
    /\ arg = [p |-> Progress(EmptyCharacter, Str(<< >>), TRUE),
              context |-> "previous"]
    /\ call = [op |-> "All", trace |-> << >>, out |-> Undef]

\* character.Race = this.Race(context); context.character = character
AllRace ==
    /\ AtStage(0)
    /\ \E o \in GenerateRace(BuildContext, ContextCharacter, arg.p.mc) :
          IF Abrupt(o.v) THEN Raised
          ELSE /\ arg' = [p |-> Progress([arg.p.c EXCEPT !.Race = o.v], o.mc, TRUE),
                          context |-> ContextAssigned]
               /\ Entered
    /\ StageFrame

\* character.Gender = this.Gender(context)
AllGender ==
    /\ AtStage(1)
    /\ \E g \in GenerateGender(BuildContext, ContextCharacter) :
          arg' = [arg EXCEPT !.p.c.Gender = g]
    /\ Entered
    /\ StageFrame

\* nameObj = this.Name(context)
AllName ==
    /\ AtStage(2)
    /\ \E n \in GenerateName(BuildContext, ContextCharacter,
                     IF IsNullish(ContextCharacter.Race) THEN {}
                     ELSE NamesGet(GetProp(ContextCharacter.Race, s_name),
                                   ContextCharacter.Gender)) :
          IF Abrupt(n[1]) THEN Raised
          ELSE /\ arg' = [arg EXCEPT !.p.c.Name = n[1], !.p.c.ShortName = n[2]]
               /\ Entered
    /\ StageFrame

\* character.Class = this.Class(context)
AllClass ==
    /\ AtStage(3)
    /\ \E o \in GenerateClass(BuildContext, ContextCharacter, arg.p.mc) :
          IF Abrupt(o.v) THEN Raised
          ELSE /\ arg' = [arg EXCEPT !.p.c.Class = o.v, !.p.mc = o.mc]
               /\ Entered
    /\ StageFrame

\* character.Background = this.Background(context)
AllBackground ==
    /\ AtStage(4)
    /\ \E o \in GenerateBackground(BuildContext, ContextCharacter, arg.p.mc) :
          IF Abrupt(o.v) THEN Raised
          ELSE /\ arg' = [arg EXCEPT !.p.c.Background = o.v, !.p.mc = o.mc]
               /\ Entered
    /\ StageFrame

\* character.Occupation = NPC.GetOccupation(false)
AllOccupation ==
    /\ AtStage(5)
    /\ \E occupation \in GetOccupation(FALSE, {}) :
          arg' = [arg EXCEPT !.p.c.Occupation = occupation]
    /\ Entered
    /\ StageFrame

\* character.NPCTraits = NPC.GetTraits(context.data)
AllNPCTraits ==
    /\ AtStage(6)
    /\ \E traits \in GetTraits(Data.npcs) :
          arg' = [arg EXCEPT !.p.c.NPCTraits = traits]
    /\ Entered
    /\ StageFrame

\* character.Life = Life.Get(context); return character
AllLife ==
    /\ AtStage(7)
    /\ \E life \in LifeGet(ContextCharacter) :
          IF Abrupt(life) THEN Raised
          ELSE /\ arg' = [arg EXCEPT !.p.c.Life = life]
               /\ Entered
    /\ StageFrame

NextAll ==
    \/ AllRace \/ AllGender \/ AllName \/ AllClass \/ AllBackground
    \/ AllOccupation \/ AllNPCTraits \/ AllLife

SpecAll == InitAll /\ [][NextAll]_vars

\* the fields of the record that the stage number i writes
StageFields(i, c) ==
    CASE i = 1 -> <<c.Race>>
      [] i = 2 -> <<c.Gender>>
      [] i = 3 -> <<c.Name, c.ShortName>>
      [] i = 4 -> <<c.Class>>
      [] i = 5 -> <<c.Background>>
      [] i = 6 -> <<c.Occupation>>
      [] i = 7 -> <<c.NPCTraits>>
      [] OTHER -> <<c.Life>>

DigitChars == <<"0", "1", "2", "3", "4", "5", "6", "7", "8", "9">>

IsDigit(ch) == \E d \in 1..10 : DigitChars[d] = ch

DigitValue(ch) == (CHOOSE d \in 1..10 : DigitChars[d] = ch) - 1

\* the value of the longest prefix of s made of digits, after acc
RECURSIVE DigitsValue(_, _, _)
DigitsValue(s, i, acc) ==
    IF i > Len(s) \/ ~IsDigit(s[i]) THEN acc
    ELSE DigitsValue(s, i + 1, 10 * acc + DigitValue(s[i]))

\* parseInt(s) for a string without blanks: "NaN" when no digit leads
ParseInt(s) ==
    IF Len(s) > 0 /\ IsDigit(s[1]) THEN DigitsValue(s, 1, 0)
    ELSE IF Len(s) > 1 /\ s[1] = "-" /\ IsDigit(s[2]) THEN 0 - DigitsValue(s, 2, 0)
    ELSE IF Len(s) > 1 /\ s[1] = "+" /\ IsDigit(s[2]) THEN DigitsValue(s, 2, 0)
    ELSE "NaN"

\* the number a string of digits is converted to in die < numbers[0] and in
\* Math.random() * max; the empty string is 0
ToNumber(s) ==
    IF \A i \in 1..Len(s) : IsDigit(s[i]) THEN DigitsValue(s, 1, 0) ELSE "NaN"

\* this.Num(max) for one die
DieFaceFromZero(max) == RandomNum(max)

\* this.Num(max) + 1 for one die
DieFace(max) == {n + 1 : n \in RandomNum(max)}

\* the for loop of DiceRoll from die on: the totals it can end with
RECURSIVE DiceTotals(_, _, _, _)
DiceTotals(die, dice, max, totals) ==
    IF die >= dice THEN totals
    ELSE DiceTotals(die + 1, dice, max,
                    {total + face : total \in totals, face \in DieFace(max)})

\* Random.DiceRoll(roll) for a roll whose numbers are strings of digits
DiceRoll(roll) ==
    LET numbers == Split(roll, "d") IN
    IF Len(numbers) = 1 THEN {ParseInt(numbers[1])}
    ELSE DiceTotals(0, ToNumber(numbers[1]), ToNumber(numbers[2]), {0})

\* the largest number of dice and of sides of a roll
MaxDice == 3
MaxSides == 20

\* Number.prototype.toString for a natural number
RECURSIVE Digits(_)
Digits(n) ==
    IF n < 10 THEN <<DigitChars[n + 1]>>
    ELSE Digits(n \div 10) \o <<DigitChars[(n % 10) + 1]>>

\* the rolls 'NdM' and the bare literals 'N', with the numbers they spell
DiceRolls ==
    {[roll |-> Digits(n) \o <<"d">> \o Digits(m), dice |-> n, sides |-> m,
      bare |-> FALSE] : n \in 0..MaxDice, m \in 1..MaxSides}
    \cup {[roll |-> Digits(n), dice |-> n, sides |-> 0, bare |-> TRUE] :
             n \in 0..MaxSides}

InitDice ==
    /\ InitFunction
    /\ usedBooks = <<s_Real, s_PHB>>
    /\ arg \in DiceRolls

\* Random.DiceRoll(roll)
CallDiceRoll ==
    /\ \E total \in DiceRoll(arg.roll) : call' = Result("DiceRoll", total)
    /\ FunctionFrame

NextDice == CallDiceRoll

SpecDice == InitDice /\ [][NextDice]_vars

\* C20: DiceRoll('NdM') is an integer from N to N*M, both of which it can
\* return, and DiceRoll of the bare literal 'N' is N.
C20_DiceRollInRange ==
    call.op = "DiceRoll" =>
        IF arg.bare THEN call.out = arg.dice
        ELSE /\ call.out \in arg.dice..(arg.dice * arg.sides)
             /\ arg.dice \in DiceRoll(arg.roll)
             /\ arg.dice * arg.sides \in DiceRoll(arg.roll)

\* '3d6' came out as 18
C20_Witness ==
    /\ call.op = "DiceRoll"
    /\ arg.roll = <<"3", "d", "6">>
    /\ call.out = 18

\* ------------------------------------------------------------------------
\* Random.Array and Random.ArrayMultiple
\* ------------------------------------------------------------------------
\* the largest length of an array handed to Random.Array / ArrayMultiple
\* and the largest number of picks
MaxItems == 4
MaxPicks == 3

ItemValues == {Str(<<"a">>), Str(<<"b">>), Str(<<"c">>)}

RECURSIVE ItemLists(_)
ItemLists(n) ==
    IF n = 0 THEN {<< >>}
    ELSE ItemLists(n - 1)
         \cup {Append(l, x) : l \in {m \in ItemLists(n - 1) : Len(m) = n - 1},
                              x \in ItemValues}

InitPicks ==
    /\ InitFunction
    /\ usedBooks = <<s_Real, s_PHB>>
    /\ arg \in [arr : {Arr(l) : l \in ItemLists(MaxItems)}, num : 0..MaxPicks]

\* Random.Array(arr)
CallArray ==
    /\ \E v \in RandomArray(arg.arr) : call' = Result("Array", v)
    /\ FunctionFrame

\* Random.ArrayMultiple(arr, num)
CallArrayMultiple ==
    /\ \E v \in RandomArrayMultiple(arg.arr, arg.num) :
          call' = Result("ArrayMultiple", v)
    /\ FunctionFrame

NextPicks == CallArray \/ CallArrayMultiple

SpecPicks == InitPicks /\ [][NextPicks]_vars

\* the distinct values of arg.arr
DistinctItems == {arg.arr.e[i][2] : i \in 1..Len(arg.arr.e)}

\* C21: Random.ArrayMultiple(arr, num) always ends: with num pairwise
\* distinct elements of arr when arr has that many distinct values, and
\* with an error when it has fewer or is empty.
C21_ArrayMultipleEnds ==
    call.op = "ArrayMultiple" =>
        IF arg.num <= Cardinality(DistinctItems)
        THEN \E d \in DistinctDraws(DistinctItems, arg.num) :
                 call.out = Str(Join(d, s_commaSpace))
        ELSE call.out = Throw

\* C22: Random.Array returns an element of a sequence that is not empty and
\* fails with an error on an empty one.
C22_ArrayPicksOrFails ==
    call.op = "Array" =>
        IF Len(arg.arr.e) > 0 THEN call.out \in DistinctItems
        ELSE call.out = Throw

\* ------------------------------------------------------------------------
\* The lock handlers of the page
\* ------------------------------------------------------------------------
\* the keys the lock buttons of the page call toggleLock with
ToggleKeys == {"traits", "occupation", "class", "race", "background", "life"}

\* a handler that sets the one flag and drops the others
toggleLockAlone(prevLocks, lockKey) ==
    [k \in {lockKey} |-> ~(k \in DOMAIN prevLocks /\ prevLocks[k])]

\* the object toggleLock hands to setLocks
toggleLock(prevLocks, lockKey) ==
    [k \in DOMAIN prevLocks \cup {lockKey} |->
        IF k = lockKey THEN ~(k \in DOMAIN prevLocks /\ prevLocks[k])
        ELSE prevLocks[k]]

\* the object lockAll hands to setLocks
lockAll ==
    [name |-> TRUE, traits |-> TRUE, occupation |-> TRUE, gender |-> TRUE,
     race |-> TRUE, class |-> TRUE, background |-> TRUE, life |-> TRUE]

\* the object unlockAll hands to setLocks
unlockAll ==
    [name |-> FALSE, traits |-> FALSE, occupation |-> FALSE, gender |-> FALSE,
     race |-> FALSE, class |-> FALSE, background |-> FALSE, life |-> FALSE]

\* the page as it opens; call.out holds the locks before the last handler
InitLocks ==
    /\ InitFunction
    /\ usedBooks = <<s_Real, s_PHB>>
    /\ arg = [item |-> Null, dropdownVal |-> s_Random, collection |-> FALSE]

LocksFrame ==
    UNCHANGED <<usedBooks, ethnicityOption, gender, mcEthnicity, arg, menu,
                character, generated>>

ClickToggleLock ==
    /\ \E lockKey \in ToggleKeys :
          /\ locks' = toggleLock(locks, lockKey)
          /\ call' = [op |-> "toggleLock", trace |-> <<lockKey>>, out |-> locks]
    /\ LocksFrame

ClickLockAll ==
    /\ locks' = lockAll
    /\ call' = [op |-> "lockAll", trace |-> << >>, out |-> locks]
    /\ LocksFrame

ClickUnlockAll ==
    /\ locks' = unlockAll
    /\ call' = [op |-> "unlockAll", trace |-> << >>, out |-> locks]
    /\ LocksFrame

NextLocks == ClickToggleLock \/ ClickLockAll \/ ClickUnlockAll

SpecLocks == InitLocks /\ [][NextLocks]_vars

\* C23: after lockAll every lock flag is true, after unlockAll every flag is
\* false, toggleLock(k) flips the flag k and leaves the others, and the set
\* of lock keys never changes.
C23_LockOperations ==
    /\ DOMAIN locks = LockKeys
    /\ call.op = "lockAll" => \A k \in LockKeys : locks[k]
    /\ call.op = "unlockAll" => \A k \in LockKeys : ~locks[k]
    /\ call.op = "toggleLock" =>
          \A k \in LockKeys :
              locks[k] = IF k = call.trace[1] THEN ~call.out[k] ELSE call.out[k]

\* the race lock was toggled off while other locks stay set
C23_Witness ==
    /\ call.op = "toggleLock"
    /\ call.trace[1] = "race"
    /\ call.out = lockAll
    /\ ~locks["race"]
    /\ locks["name"]

\* ---------------------------------------------------------------------
\* Life.SiblingRace over the playable races and the Parents texts
\* ---------------------------------------------------------------------

MixedRaces == {s_HalfElf, s_HalfOrc, s_Tiefling, s_Genasi, s_Aasimar}

SiblingRaceNames == MixedRaces \cup {s_Human, s_Elf, s_Orc, s_Tabaxi, s_Warforged}

\* The pure parent races of a mixed race
PureParents(raceName) ==
    CASE raceName = s_HalfElf -> {s_Human, s_Elf}
      [] raceName = s_HalfOrc -> {s_Human, s_Orc}
      [] OTHER -> {s_Human}

\* The Parents text of a mixed race that names one human parent and one
\* parent of the mixed race
HumanParentText(raceName) ==
    CASE raceName = s_HalfElf -> Str(<<"One parent was a human and the other was a half-elf.">>)
      [] raceName = s_HalfOrc -> Str(<<"One parent was a human and the other was a half-orc.">>)
      [] raceName = s_Tiefling -> Str(<<"One parent was a tiefling and the other was a human.">>)
      [] raceName = s_Genasi -> Str(<<"One parent was a genasi and the other was a human.">>)
      [] OTHER -> Undef

ParentsTexts ==
    {HumanParentText(r) : r \in MixedRaces \ {s_Aasimar}}
      \cup {Str(<<"One parent was an elf and the other was a half-elf.">>),
            Str(<<"Both parents were half-elves.">>),
            Str(<<"One parent was an orc and the other was a half-orc.">>),
            Str(<<"Both parents were half-orcs.">>),
            Str(<<"Both parents were humans, their infernal heritage dormant until you came along.">>),
            Str(<<"Both parents were tieflings.">>),
            Str(<<"Both parents were humans, their elemental heritage dormant until you came along.">>),
            Str(<<"Both parents were humans, their celestial heritage dormant until you came along.">>),
            Str(<<"One parent was an aasimar and the other was a human.">>),
            Undef}

InitSiblingRace ==
    /\ InitFunction
    /\ usedBooks = <<s_Real, s_PHB>>
    /\ arg \in [parents : ParentsTexts,
                character : {[Race |-> Obj(<<<<s_name, Str(r)>>>>)] : r \in SiblingRaceNames}]

CallSiblingRace ==
    /\ \E v \in SiblingRace(arg.parents, arg.character) :
         call' = Result("SiblingRace", v)
    /\ FunctionFrame

NextSiblingRace == CallSiblingRace

SpecSiblingRace == InitSiblingRace /\ [][NextSiblingRace]_vars

\* C25: SiblingRace returns the character's own race for every race that is
\* not Half-Elf, Half-Orc, Tiefling, Genasi or Aasimar; for those five it
\* returns the character's race or a pure parent race; and for Half-Elf,
\* Half-Orc, Tiefling and Genasi the Parents text naming one human parent
\* and one parent of the mixed race makes Human a possible sibling race.
C25_SiblingRaceOfParents ==
    LET raceName == GetProp(arg.character.Race, s_name).s
    IN  /\ call.op = "SiblingRace" =>
             IF raceName \in MixedRaces
             THEN call.out.k = "str" /\ call.out.s \in {raceName} \cup PureParents(raceName)
             ELSE call.out = Str(raceName)
        /\ (raceName \in MixedRaces \ {s_Aasimar} /\ arg.parents = HumanParentText(raceName))
             => Str(s_Human) \in SiblingRace(arg.parents, arg.character)

\* ---------------------------------------------------------------------
\* The Origin of Life.Get
\* ---------------------------------------------------------------------

s_Built == <<"Built">>
s_Birthplace == <<"Birthplace">>
s_Parents == <<"Parents">>
s_RaisedBy == <<"Raised By">>
s_AbsentParents == <<"Absent Parent(s)">>
s_MotherAndFather == <<"Mother and father">>
s_3d6 == <<"3", "d", "6">>

\* Life.RaisedBy for the number rand
RaisedByOfRoll(rand) ==
    IF rand < 1 THEN <<"Nobody">>
    ELSE IF rand < 2 THEN <<"Institution, such as an asylum">>
    ELSE IF rand < 3 THEN <<"Temple">>
    ELSE IF rand < 5 THEN <<"Orphanage">>
    ELSE IF rand < 7 THEN <<"Guardian">>
    ELSE IF rand < 15
    THEN <<"Paternal or maternal aunt, uncle, or both : or extended family such as a tribe or clan">>
    ELSE IF rand < 25 THEN <<"Paternal or maternal grandparent(s)">>
    ELSE IF rand < 35 THEN <<"Adoptive family (same or different race)">>
    ELSE IF rand < 55 THEN <<"Single father or stepfather">>
    ELSE IF rand < 75 THEN <<"Single mother or stepmother">>
    ELSE s_MotherAndFather

\* Life.RaisedBy()
RaisedBy == {Str(RaisedByOfRoll(rand)) : rand \in RandomNum(100)}

\* Life.AbsentParent()
AbsentParent ==
    {Str(IF rand < 1 THEN <<"Your parent(s) died">>
         ELSE IF rand < 2
         THEN <<"Your parent(s) was/were imprisoned, enslaved, or otherwise taken away">>
         ELSE IF rand < 3 THEN <<"Your parent(s) abandoned you">>
         ELSE <<"Your parent(s) disappeared to an unknown fate">>) :
     rand \in RandomNum(4)}

\* Life.Lifestyle(): the pairs of a lifestyle and its modifier
Lifestyle ==
    {IF roll < 4 THEN <<Str(<<"Wretched">>), -40>>
     ELSE IF roll < 6 THEN <<Str(<<"Squalid">>), -20>>
     ELSE IF roll < 9 THEN <<Str(<<"Poor">>), -10>>
     ELSE IF roll < 13 THEN <<Str(<<"Modest">>), 0>>
     ELSE IF roll < 16 THEN <<Str(<<"Comfortable">>), 10>>
     ELSE IF roll < 18 THEN <<Str(<<"Wealthy">>), 20>>
     ELSE <<Str(<<"Aristocratic">>), 40>> :
     roll \in DiceRoll(s_3d6)}

\* Life.Home(lifeMod)
Home(lifeMod) ==
    {LET rand == n + lifeMod IN
     Str(IF rand < 0 THEN <<"On the streets">>
         ELSE IF rand < 20 THEN <<"Rundown shack">>
         ELSE IF rand < 30 THEN <<"No permanent residence, you moved around a lot">>
         ELSE IF rand < 40 THEN <<"Encampment of village in the wilderness">>
         ELSE IF rand < 50 THEN <<"Apartment in a rundown neighborhood">>
         ELSE IF rand < 70 THEN <<"Small house">>
         ELSE IF rand < 90 THEN <<"Large house">>
         ELSE IF rand < 110 THEN <<"Mansion">>
         ELSE <<"Palace or Castle">>) :
     n \in RandomNum(100)}

\* Life.Memories()
Memories ==
    {LET roll == dice + n - 1 IN
     Str(IF roll < 4
         THEN <<"I am still haunted by my childhood, when I was treated badly by my peers">>
         ELSE IF roll < 6 THEN <<"I spent most of my childhood alone, with no close friends">>
         ELSE IF roll < 9
         THEN <<"Others saw me as being different or strange, and so I had few companions">>
         ELSE IF roll < 13 THEN <<"I had a few close friends and lived an ordinary childhood.">>
         ELSE IF roll < 16
         THEN <<"I had several friends, and my childhood was generally a happy one.">>
         ELSE IF roll < 18
         THEN <<"I always found it easy to make friends, and I loved being around people.">>
         ELSE <<"Everyone knew who I was, and I had friends everywhere I went.">>) :
     dice \in DiceRoll(s_3d6), n \in RandomNum(5)}

\* the key of the birthplace in the Origin
BirthplaceKeyAlways(c) == s_Birthplace

BirthplaceKey(c) ==
    IF GetProp(c.Race, s_name) = Str(s_Warforged) THEN s_Built ELSE s_Birthplace

\* the properties of the Origin from the birthplace to the absent parents,
\* with newLife.Origin.Parents
OriginOfParents(life, c) ==
    LET parents == GetProp(life.origins.Parents,
                           ToPropertyKey(GetProp(c.Race, s_name)))
    IN  {[Parents |-> parent,
          props |-> << <<BirthplaceKey(c), place>> >>
            \o (IF parents # Undef THEN << <<s_Parents, parent>> >> ELSE << >>)
            \o << <<s_RaisedBy, raisedBy>> >>
            \o (IF raisedBy # Str(s_MotherAndFather)
                THEN << <<s_AbsentParents, absent>> >> ELSE << >>)] :
         place \in RandomArray(life.origins.Birthplace),
         parent \in IF parents # Undef THEN RandomArray(parents) ELSE {Undef},
         raisedBy \in RaisedBy,
         absent \in AbsentParent}

\* the properties of the Origin from the lifestyle to the memories
OriginOfLifestyle ==
    UNION {{<< <<<<"Family Lifestyle">>, lifestyle[1]>>,
               <<<<"Childhood Home">>, home>>,
               <<<<"Childhood Memories">>, memories>> >> :
            home \in Home(lifestyle[2]), memories \in Memories} :
           lifestyle \in Lifestyle}

\* the races of the characters and the names of their races
OriginRaces == {s_Human, s_Warforged}

\* life.origins.Parents: a pool for one race
ParentsPools ==
    {Obj(<< <<r, Arr(<<Str(<<"Both parents were of the same race.">>)>>)>> >>) :
        r \in OriginRaces}

InitOrigin ==
    /\ InitFunction
    /\ usedBooks = <<s_Real, s_PHB>>
    /\ arg \in [data : {[names |-> Obj(<< <<s_Human, Arr(<<Str(FullNames[4])>>)>>,
                                          <<s_Warforged, Arr(<<Str(FullNames[4])>>)>> >>),
                          genders |-> Data.genders,
                          life |-> [origins |-> [Birthplace |-> Arr(<<Str(<<"Home">>)>>),
                                                 Parents |-> pools]]] :
                         pools \in ParentsPools},
                 character : [Race : {Obj(<< <<s_name, Str(r)>> >>) : r \in OriginRaces},
                              Name : {Str(FullNames[1])}]]

\* newLife.Origin at a position of Life.Get
OriginAt(position, origin) == [op |-> "Life.Get", trace |-> <<position>>, out |-> origin]

\* Life.Get(context) from its start to the absent parents
GetOriginParents ==
    /\ call = NoCall
    /\ IF IsNullish(arg.character.Race)
       THEN call' = OriginAt("returned", Throw)
       ELSE \E first \in OriginOfParents(arg.data.life, arg.character) :
               call' = OriginAt("raised", Obj(first.props))
    /\ FunctionFrame

\* Life.Get(context) from the lifestyle to the memories
GetOriginLifestyle ==
    /\ call.op = "Life.Get" /\ call.trace = <<"raised">>
    /\ \E second \in OriginOfLifestyle :
          call' = OriginAt("remembered", Obj(call.out.e \o second))
    /\ FunctionFrame

\* newLife.Origin.Siblings = this.Siblings(newLife.Origin.Parents, context),
\* and the Origin that Life.Get returns
GetOriginSiblings ==
    /\ call.op = "Life.Get" /\ call.trace = <<"remembered">>
    /\ \E siblings \in Siblings(arg.data, GetProp(call.out, s_Parents),
                                 arg.character) :
          call' = OriginAt("returned",
                           IF Abrupt(siblings) THEN siblings
                           ELSE Obj(call.out.e \o << <<<<"Siblings">>, siblings>> >>))
    /\ FunctionFrame

NextOrigin == GetOriginParents \/ GetOriginLifestyle \/ GetOriginSiblings

SpecOrigin == InitOrigin /\ [][NextOrigin]_vars

OriginHas(key) == HasOwnProperty(call.out, key)

\* C24: in every Origin of Life.Get, 'Absent Parent(s)' is present exactly
\* when 'Raised By' is not 'Mother and father'; exactly one of 'Birthplace'
\* and 'Built' is present, 'Built' exactly when the race is Warforged; and
\* 'Parents' is present exactly when life.origins.Parents has a pool for
\* the race of the character.
C24_OriginFields ==
    (call.op = "Life.Get" /\ call.trace = <<"returned">> /\ call.out.k = "obj") =>
        LET raceName == GetProp(arg.character.Race, s_name) IN
        /\ OriginHas(s_RaisedBy)
        /\ OriginHas(s_AbsentParents)
             <=> (GetProp(call.out, s_RaisedBy) # Str(s_MotherAndFather))
        /\ OriginHas(s_Birthplace) # OriginHas(s_Built)
        /\ OriginHas(s_Built) <=> (raceName = Str(s_Warforged))
        /\ OriginHas(s_Parents)
             <=> HasOwnProperty(arg.data.life.origins.Parents, raceName.s)

\* a warforged raised by somebody else than mother and father, of a corpus
\* with a parents pool for warforged
C24_Witness ==
    /\ call.op = "Life.Get" /\ call.trace = <<"returned">> /\ call.out.k = "obj"
    /\ GetProp(arg.character.Race, s_name) = Str(s_Warforged)
    /\ OriginHas(s_Built) /\ OriginHas(s_Parents) /\ OriginHas(s_AbsentParents)

\* ---------------------------------------------------------------------
\* Life.ClassWeighted
\* ---------------------------------------------------------------------

s_Other == <<"O", "t", "h", "e", "r">>
s_UA == <<"U", "A">>

\* usedBooks.includes(book)
ArrayIncludes(books, book) == \E i \in 1..Len(books) : books[i] = book

\* the call this.ClassWeighted(usedBooks) that a roll on a disabled class makes
Recursing == [k |-> "call", s |-> <<"ClassWeighted">>, e |-> << >>]

\* the return statement of a class of an optional book with the class
\* returned whatever the books are
ClassOfBookAlways(books, book, class) == Str(class)

\* usedBooks.includes(book) ? class : this.ClassWeighted(usedBooks)
ClassOfBook(books, book, class) ==
    IF ArrayIncludes(books, book) THEN Str(class) ELSE Recursing

\* Life.ClassWeighted(usedBooks) for the number rand
ClassOfRoll(rand, books) ==
    IF rand < 7 THEN Str(<<"Barbarian">>)
    ELSE IF rand < 14 THEN Str(<<"Bard">>)
    ELSE IF rand < 29 THEN Str(<<"Cleric">>)
    ELSE IF rand < 36 THEN Str(<<"Druid">>)
    ELSE IF rand < 52 THEN Str(<<"Fighter">>)
    ELSE IF rand < 58 THEN Str(<<"Monk">>)
    ELSE IF rand < 64 THEN Str(<<"Paladin">>)
    ELSE IF rand < 70 THEN Str(<<"Ranger">>)
    ELSE IF rand < 84 THEN Str(<<"Rogue">>)
    ELSE IF rand < 89 THEN Str(<<"Sorcerer">>)
    ELSE IF rand < 94 THEN Str(<<"Warlock">>)
    ELSE IF rand < 100 THEN Str(<<"Wizard">>)
    ELSE IF rand < 105 THEN ClassOfBook(books, s_EBR, <<"Artificer">>)
    ELSE IF rand < 110 THEN ClassOfBook(books, s_Other, <<"Blood Hunter">>)
    ELSE ClassOfBook(books, s_UA, <<"Mystic">>)

\* the books of the class rolls
ClassBookLists ==
    {<<s_Real, s_PHB>> \o SetToSeq(bs) : bs \in SUBSET {s_EBR, s_Other, s_UA}}

InitClassWeighted ==
    /\ InitFunction
    /\ usedBooks \in ClassBookLists
    /\ arg = Undef

\* Life.ClassWeighted(usedBooks): the first call, and the call that a roll
\* on a disabled class makes
CallClassWeighted ==
    /\ call = NoCall \/ (call.op = "ClassWeighted" /\ call.out = Recursing)
    /\ \E rand \in RandomNum(115) :
          call' = [op |-> "ClassWeighted", trace |-> <<rand>>,
                   out |-> ClassOfRoll(rand, usedBooks)]
    /\ FunctionFrame

NextClassWeighted == CallClassWeighted

SpecClassWeighted == InitClassWeighted /\ [][NextClassWeighted]_vars

ClassNames ==
    {<<"Barbarian">>, <<"Bard">>, <<"Cleric">>, <<"Druid">>, <<"Fighter">>,
     <<"Monk">>, <<"Paladin">>, <<"Ranger">>, <<"Rogue">>, <<"Sorcerer">>,
     <<"Warlock">>, <<"Wizard">>, <<"Artificer">>, <<"Blood Hunter">>,
     <<"Mystic">>}

\* the book of a class
ClassBook(class) ==
    CASE class = <<"Artificer">> -> s_EBR
      [] class = <<"Blood Hunter">> -> s_Other
      [] class = <<"Mystic">> -> s_UA
      [] OTHER -> s_PHB

\* C26: what Life.ClassWeighted(usedBooks) returns is one of the 15 class
\* names and a class whose book is in usedBooks (Artificer: EBR, Blood
\* Hunter: Other, Mystic: UA); a roll on a class whose book is not in
\* usedBooks returns nothing and calls ClassWeighted again.
C26_ClassOfEnabledBook ==
    call.op = "ClassWeighted" =>
        LET rand == call.trace[1]
            rolled == IF rand < 100 THEN s_PHB
                      ELSE IF rand < 105 THEN s_EBR
                      ELSE IF rand < 110 THEN s_Other ELSE s_UA
        IN  /\ call.out # Recursing =>
                 /\ call.out.k = "str" /\ call.out.s \in ClassNames
                 /\ ArrayIncludes(usedBooks, ClassBook(call.out.s))
            /\ call.out = Recursing <=> ~ArrayIncludes(usedBooks, rolled)
            /\ call.out = Recursing => ENABLED CallClassWeighted

\* a roll on Mystic without the book UA, rolled again
C26_Witness ==
    /\ call.op = "ClassWeighted" /\ call.trace[1] >= 110
    /\ ~ArrayIncludes(usedBooks, s_UA) /\ call.out = Recursing

\* ---------------------------------------------------------------------
\* Life.Siblings and the number of siblings it draws
\* ---------------------------------------------------------------------

\* Life.Siblings(parents, context) after numSiblings is drawn
SiblingsOfCount(data, parents, c, numSiblings) ==
    IF numSiblings = 0 THEN {Null}
    ELSE SiblingsFrom(data, parents, c, << >>, 0, numSiblings)

\* Life.Siblings(parents, context), called once; numSiblings is kept
CallSiblingsOfCount ==
    /\ call = NoCall
    /\ \E numSiblings \in RandomNum(3) :
          \E o \in SiblingsOfCount(arg.data, arg.parents, arg.character,
                                    numSiblings) :
             call' = [op |-> "Siblings", trace |-> <<numSiblings>>, out |-> o]
    /\ FunctionFrame

NextSiblingCount == CallSiblingsOfCount

SpecSiblingCount == InitSiblings /\ [][NextSiblingCount]_vars

\* C27: the mapping that Life.Siblings returns has as many entries as the
\* number of siblings drawn, and Life.Siblings returns null when that
\* number is 0.
C27_OneEntryPerSibling ==
    (call.op = "Siblings" /\ ~Abrupt(call.out)) =>
        IF call.trace[1] = 0 THEN call.out = Null
        ELSE call.out.k = "obj" /\ Len(call.out.e) = call.trace[1]

\* ---------------------------------------------------------------------
\* The filter of GetRandom and the book opcodes of the entry it picks
\* ---------------------------------------------------------------------

\* the book clauses of the tags of the entries
GateClauses ==
    {s_bookDash \o s_PHB, s_bookDash \o s_EBR, s_bookDash \o s_SCAG,
     s_bookDash \o s_EBR \o <<"-">> \o s_PHB}

RECURSIVE GateClauseLists(_)
GateClauseLists(n) ==
    IF n = 0 THEN {<< >>}
    ELSE GateClauseLists(n - 1)
         \cup {Append(cs, c) : cs \in {q \in GateClauseLists(n - 1) : Len(q) = n - 1},
                               c \in GateClauses}

\* the body of the entry of the collection
GatedBody == << <<k_t, Str(<<"x">>)>> >>

\* a collection of one entry, the sentinel 'Random' chosen
InitGate ==
    /\ InitFunction
    /\ usedBooks \in UsedBookLists
    /\ arg \in [item : {Obj(<< <<k_A, Tagged(Token(cs), GatedBody)>> >>) :
                            cs \in GateClauseLists(MaxClauses) \ {<< >>}},
                 dropdownVal : {s_Random},
                 collection : {TRUE}]

NextGate == CallGetRandom

SpecGate == InitGate /\ [][NextGate]_vars

\* C28: an entry that passes CheckBookSpecial is left non-null by every
\* book opcode of its own tag, so the content of the entry that GetRandom
\* picks with 'Random' is not null.
C28_FilterAgreesWithGate ==
    LET tag == GetProp(arg.item.e[1][2], s_special).s
        cases == Split(tag, " ")
    IN  /\ CheckBookSpecial(tag, usedBooks) =>
              \A i \in 1..Len(cases) :
                  Slice(cases[i], 0, 5) = s_bookDash =>
                      \A o \in ApplySpecial(cases[i], Obj(GatedBody), Context,
                                             mcEthnicity) : o.v # Null
        /\ (call.op = "GetRandom" /\ call.out.k = "obj") =>
              GetProp(call.out, s_content) # Null

\* ---------------------------------------------------------------------
\* Generate.Race in the weighted race modes, over catalogs and weight
\* tables
\* ---------------------------------------------------------------------

\* the pow argument of getRaceWeighted, doubled, for a race mode
PowTwiceOfMode(raceMode) ==
    CASE raceMode = "weighted" -> 2
      [] raceMode = "weighted15" -> 3
      [] raceMode = "weighted20" -> 4
      [] OTHER -> 0

\* raceSelection of Generate.Race for data.races and data.other.raceWeights
RaceSelectionOf(races, raceWeights, cx) ==
    IF Len(cx.raceMenuValue) > 0 /\ cx.raceMenuValue # s_Random
    THEN {Str(cx.raceMenuValue)}
    ELSE IF PowTwiceOfMode(cx.raceMode) > 0
    THEN getRaceWeighted(races, raceWeights, cx.usedBooks,
                         PowTwiceOfMode(cx.raceMode))
    ELSE {Str(s_Random)}

\* Generate.Race for data.races and data.other.raceWeights
GenerateRaceOf(races, raceWeights, cx, previous, mc) ==
    IF cx.locks.race THEN {Outcome(previous.Race, mc)}
    ELSE UNION {GetRandomEntry(races, sel, cx, previous.Gender, mc) :
                sel \in RaceSelectionOf(races, raceWeights, cx)}

\* the race mode of the context
RaceModeOfPowTwice(powTwice) ==
    CHOOSE raceMode \in {"weighted", "weighted15", "weighted20"} :
        PowTwiceOfMode(raceMode) = powTwice

\* Generate.Race(context) with the race menu on 'Random' and no lock
CallGenerateRace ==
    /\ \E o \in GenerateRaceOf(arg.races, arg.raceWeights,
                                 [BuildContext EXCEPT
                                     !.raceMode = RaceModeOfPowTwice(arg.powTwice)],
                                 character, mcEthnicity) :
          /\ call' = [op |-> "Generate.Race",
                      trace |-> <<RaceModeOfPowTwice(arg.powTwice)>>,
                      out |-> o.v]
          /\ mcEthnicity' = o.mc
    /\ UNCHANGED <<usedBooks, ethnicityOption, gender, arg>>
    /\ UNCHANGED pageVars

NextWeighted == CallGenerateRace

SpecWeighted == InitRaces /\ [][NextWeighted]_vars

\* C29: in the weighted race modes, with the race menu on 'Random' and the
\* race unlocked, the race Generate.Race returns passes the Book Filter for
\* usedBooks and its content is not nulled by its book gate; so a race of
\* the weight table whose book is not enabled is never returned.
C29_WeightedRaceEligible ==
    (call.op = "Generate.Race" /\ call.out.k = "obj") =>
        LET entry == GetProp(arg.races, GetProp(call.out, s_name).s) IN
        /\ HasSpecialString(entry)
        /\ checkBookSpecial(GetProp(entry, s_special).s, usedBooks)
        /\ GetProp(call.out, s_content) # Null

\* ---------------------------------------------------------------------
\* Dark Dawn: DarkDawnGenerate and the Dark Dawn handlers of the page.
\* ddData is arg, ddCharacter is character, ddLocks is locks, ddName and
\* the selectedDD... values are menu.  An object of ddData is a record, a
\* missing property is Undef.
\* ---------------------------------------------------------------------

\* number of factions of ddData
MaxFactions == 3

DDAbility(name) == [name |-> name]

AllFactions ==
    << [name |-> "Order", abilities |-> <<DDAbility("a"), DDAbility("b")>>],
       [name |-> "Cult", abilities |-> <<DDAbility("c")>>],
       [name |-> "Free", abilities |-> << >>],
       [name |-> "Exiles", abilities |-> <<DDAbility("a"), DDAbility("d")>>] >>

ddData ==
    [races |-> <<[name |-> "Elf"]>>,
     factions |-> SubSeq(AllFactions, 1, MaxFactions),
     classes |-> <<[name |-> "Mage"]>>,
     deities |-> <<[name |-> "Sun"]>>,
     specialAbilities |-> <<[name |-> "Sight"]>>]

DDLockKeys ==
    {"name", "race", "faction", "factionAbility", "deity", "class",
     "specialAbility"}

\* a value that is not undefined and not null
IsSet(x) == x # Undef /\ x # Null

\* pool[name] of an object of ddData
OfName(pool, name) ==
    IF \E i \in 1..Len(pool) : pool[i].name = name
    THEN pool[CHOOSE i \in 1..Len(pool) : pool[i].name = name]
    ELSE Undef

\* x?.name || 'Random'
NameOrRandom(x) == IF IsSet(x) THEN x.name ELSE "Random"

\* pool[Random.Array(Object.keys(pool))], and Random.Array(abilities)
DDRandomArray(pool) ==
    IF Len(pool) = 0 THEN {Undef} ELSE {pool[n + 1] : n \in RandomNum(Len(pool))}

\* DarkDawnGenerate.Race, Faction, Deity, Class and SpecialAbility
DDAttribute(pool, currentValue, locked) ==
    IF locked /\ IsSet(currentValue) THEN {currentValue}
    ELSE DDRandomArray(pool)

\* DarkDawnGenerate.FactionAbility
DDFactionAbility(faction, current, locked) ==
    IF locked /\ IsSet(current.FactionAbility) THEN {current.FactionAbility}
    ELSE IF ~IsSet(faction) \/ Len(faction.abilities) = 0 THEN {Null}
    ELSE DDRandomArray(faction.abilities)

\* the empty string, and a string that is not empty
EmptyName == Str(<< >>)

IsName(x) == IsSet(x) /\ x # EmptyName

\* ddCharacter when the page opens: {}
NoDDCharacter ==
    [Name |-> Undef, Race |-> Undef, Faction |-> Undef, Class |-> Undef,
     Deity |-> Undef, SpecialAbility |-> Undef, FactionAbility |-> Undef]

\* DarkDawnGenerate.All(data, locks, current, name)
DDAll(data, lks, current, name) ==
    UNION {{[Name |-> IF lks.name /\ IsName(current.Name) THEN current.Name
                     ELSE IF IsName(name) THEN name ELSE EmptyName,
             Race |-> race, Faction |-> faction, Class |-> class,
             Deity |-> deity, SpecialAbility |-> special,
             FactionAbility |-> ability] :
            race \in DDAttribute(data.races, current.Race, lks.race),
            class \in DDAttribute(data.classes, current.Class, lks.class),
            deity \in DDAttribute(data.deities, current.Deity, lks.deity),
            special \in DDAttribute(data.specialAbilities,
                                     current.SpecialAbility, lks.specialAbility),
            ability \in DDFactionAbility(faction, current, lks.factionAbility)} :
           faction \in DDAttribute(data.factions, current.Faction, lks.faction)}

NoDDLocks == [key \in DDLockKeys |-> FALSE]

NoDDMenu ==
    [ddName |-> EmptyName, selectedDDRace |-> "Random",
     selectedDDFaction |-> "Random", selectedDDFactionAbility |-> "Random",
     selectedDDDeity |-> "Random", selectedDDClass |-> "Random",
     selectedDDSpecialAbility |-> "Random"]

InitDD ==
    /\ usedBooks = <<s_Real, s_PHB>>
    /\ ethnicityOption = s_standard
    /\ gender = Undef
    /\ mcEthnicity = EmptyName
    /\ arg = ddData
    /\ call = NoCall
    /\ locks = NoDDLocks
    /\ menu = NoDDMenu
    /\ character = NoDDCharacter
    /\ generated = NotGenerated

\* what a Dark Dawn handler leaves alone
DDFrame ==
    UNCHANGED <<usedBooks, ethnicityOption, gender, mcEthnicity, arg, generated>>

\* a block "Apply ... (if not locked)" of handleGenerateDDCharacter
DDApply(locked, selected, pool, currentValue) ==
    IF locked THEN {currentValue}
    ELSE IF selected # "Random" THEN {OfName(pool, selected)}
    ELSE DDAttribute(pool, currentValue, FALSE)

\* the block "Apply Faction Ability (if not locked)"
DDApplyFactionAbility(faction) ==
    IF locks.factionAbility \/ ~IsSet(faction) THEN {character.FactionAbility}
    ELSE IF menu.selectedDDFactionAbility # "Random"
    THEN {OfName(faction.abilities, menu.selectedDDFactionAbility)}
    ELSE DDFactionAbility(faction, character, FALSE)

handleGenerateDDCharacter ==
    /\ \E race \in DDApply(locks.race, menu.selectedDDRace, arg.races,
                            character.Race),
          class \in DDApply(locks.class, menu.selectedDDClass, arg.classes,
                             character.Class),
          faction \in DDApply(locks.faction, menu.selectedDDFaction,
                               arg.factions, character.Faction),
          deity \in DDApply(locks.deity, menu.selectedDDDeity, arg.deities,
                             character.Deity),
          special \in DDApply(locks.specialAbility,
                               menu.selectedDDSpecialAbility,
                               arg.specialAbilities, character.SpecialAbility) :
          \E ability \in DDApplyFactionAbility(faction) :
             LET newName == IF ~locks.name THEN menu.ddName ELSE character.Name
             IN  /\ character' =
                       [Name |-> newName, Race |-> race, Faction |-> faction,
                        Class |-> class, Deity |-> deity,
                        SpecialAbility |-> special, FactionAbility |-> ability]
                 /\ menu' =
                       [ddName |-> IF IsName(newName) THEN newName
                                   ELSE menu.ddName,
                        selectedDDRace |-> NameOrRandom(race),
                        selectedDDClass |-> NameOrRandom(class),
                        selectedDDFaction |-> NameOrRandom(faction),
                        selectedDDFactionAbility |-> NameOrRandom(ability),
                        selectedDDDeity |-> NameOrRandom(deity),
                        selectedDDSpecialAbility |-> NameOrRandom(special)]
    /\ call' = NoCall
    /\ UNCHANGED locks
    /\ DDFrame

handleGenerateDDFaction ==
    /\ \E newFaction \in
              IF menu.selectedDDFaction # "Random"
              THEN {OfName(arg.factions, menu.selectedDDFaction)}
              ELSE DDAttribute(arg.factions, character.Faction, locks.faction) :
          IF ~locks.factionAbility
          THEN \E newAbility \in DDFactionAbility(newFaction, character, FALSE) :
                  /\ character' = [character EXCEPT !.Faction = newFaction,
                                                    !.FactionAbility = newAbility]
                  /\ menu' = [menu EXCEPT !.selectedDDFactionAbility =
                                              NameOrRandom(newAbility)]
          ELSE /\ character' = [character EXCEPT !.Faction = newFaction]
               /\ UNCHANGED menu
    /\ call' = NoCall
    /\ UNCHANGED locks
    /\ DDFrame

handleGenerateDDFactionAbility ==
    /\ LET faction == IF menu.selectedDDFaction # "Random"
                      THEN OfName(arg.factions, menu.selectedDDFaction)
                      ELSE character.Faction
       IN  IF ~IsSet(faction) THEN UNCHANGED <<character, menu>>
           ELSE IF menu.selectedDDFactionAbility # "Random"
           THEN /\ character' =
                      [character EXCEPT !.FactionAbility =
                          OfName(faction.abilities, menu.selectedDDFactionAbility)]
                /\ UNCHANGED menu
           ELSE \E newAbility \in DDFactionAbility(faction, character,
                                                   locks.factionAbility) :
                   /\ character' = [character EXCEPT !.FactionAbility = newAbility]
                   /\ menu' = [menu EXCEPT !.selectedDDFactionAbility =
                                               NameOrRandom(newAbility)]
    /\ call' = NoCall
    /\ UNCHANGED locks
    /\ DDFrame

\* the lock keys of the faction and of the faction ability
DDToggleKeys == {"faction", "factionAbility"}

toggleDDLock ==
    /\ \E lockKey \in DDToggleKeys : locks' = toggleLock(locks, lockKey)
    /\ call' = NoCall
    /\ UNCHANGED <<character, menu>>
    /\ DDFrame

lockAllDD ==
    /\ locks' = [key \in DDLockKeys |-> TRUE]
    /\ call' = NoCall
    /\ UNCHANGED <<character, menu>>
    /\ DDFrame

unlockAllDD ==
    /\ locks' = [key \in DDLockKeys |-> FALSE]
    /\ call' = NoCall
    /\ UNCHANGED <<character, menu>>
    /\ DDFrame

\* the values of ddFactionAbilityOptions
ddFactionAbilityOptions ==
    LET factionName == IF menu.selectedDDFaction # "Random"
                       THEN menu.selectedDDFaction
                       ELSE NameOrRandom(character.Faction)
        faction == OfName(arg.factions, factionName)
    IN  IF ~IsSet(faction) THEN {"Random"}
        ELSE {"Random"} \cup {faction.abilities[i].name :
                                 i \in 1..Len(faction.abilities)}

\* onValueChange of the faction menu
setSelectedDDFaction ==
    /\ \E value \in {"Random"} \cup {arg.factions[i].name :
                                         i \in 1..Len(arg.factions)} :
          menu' = [menu EXCEPT !.selectedDDFaction = value]
    /\ call' = NoCall
    /\ UNCHANGED <<character, locks>>
    /\ DDFrame

\* onValueChange of the faction ability menu
setSelectedDDFactionAbility ==
    /\ \E value \in ddFactionAbilityOptions :
          menu' = [menu EXCEPT !.selectedDDFactionAbility = value]
    /\ call' = NoCall
    /\ UNCHANGED <<character, locks>>
    /\ DDFrame

\* DarkDawnGenerate.All(ddData, ddLocks, ddCharacter, ddName), its result
\* left in call
CallDDAll ==
    /\ \E c \in DDAll(arg, locks, character, menu.ddName) :
          call' = [op |-> "DarkDawnGenerate.All", trace |-> << >>, out |-> c]
    /\ UNCHANGED <<character, locks, menu>>
    /\ DDFrame

NextDD ==
    \/ handleGenerateDDCharacter
    \/ handleGenerateDDFaction
    \/ handleGenerateDDFactionAbility
    \/ toggleDDLock
    \/ lockAllDD
    \/ unlockAllDD
    \/ setSelectedDDFaction
    \/ setSelectedDDFactionAbility
    \/ CallDDAll

SpecDD == InitDD /\ [][NextDD]_vars

\* the FactionAbility of c is null or absent, or an ability of c.Faction
AbilityOfFaction(c) ==
    \/ ~IsSet(c.FactionAbility)
    \/ /\ IsSet(c.Faction)
       /\ \E i \in 1..Len(c.Faction.abilities) :
              c.Faction.abilities[i] = c.FactionAbility

\* C30: after DarkDawnGenerate.All and after any sequence of the Dark Dawn
\* operations of the page (generate character, faction or faction
\* ability, lock toggles, menu changes) the FactionAbility of the character
\* is null or absent, or one of the abilities of its Faction.
C30_AbilityOfCurrentFaction ==
    /\ AbilityOfFaction(character)
    /\ call.op = "DarkDawnGenerate.All" => AbilityOfFaction(call.out)
====
